---- MODULE Spec2Model ----
(***************************************************************************)
(* Model of rsx::surface_store (rpcs3/Emu/RSX/Common/surface_store.h):     *)
(* the render-surface registry, its bind protocol, the invalidated pool,   *)
(* the memory-tag staleness test, the memory tree and the overlap query.   *)
(*                                                                         *)
(* A host surface is a handle 1..Len(surfaces); a surface_storage_type     *)
(* (the owning pointer) is represented by the handle it owns, so that      *)
(* ownership is the set of places a handle is stored in.  Handle 0 is      *)
(* nullptr.                                                                *)
(***************************************************************************)
EXTENDS Integers, Sequences, FiniteSets, TLC

VARIABLES
    m_render_targets_storage,       \* address -> storage (color map)
    m_depth_stencil_storage,        \* address -> storage (depth map)
    m_render_targets_memory_range,  \* rsx::address_range of the color map
    m_depth_stencil_memory_range,   \* rsx::address_range of the depth map
    m_bound_render_targets,         \* [0..3 -> <<address, handle>>]
    m_bound_depth_stencil,          \* <<address, handle>>
    invalidated_resources,          \* std::list of storages
    m_memory_tree,                  \* std::vector of surface_hierachy_info
    cache_tag,
    write_tag,
    memory_tag,
    surfaces,                       \* the surface objects, by handle
    g_sudo_mem,                     \* guest memory words (vm::g_sudo_addr)
    g_rsx_shared_tag,               \* the counter behind rsx::get_shared_tag
    last,                           \* the public call that produced this state,
                                    \* when calls of its operation are recorded
    since_write                     \* "bumped": cache_tag was set since the last
                                    \* on_write(); "clean", "repeated": one, several
                                    \* on_write() calls were made since it was set

vars == << m_render_targets_storage, m_depth_stencil_storage,
           m_render_targets_memory_range, m_depth_stencil_memory_range,
           m_bound_render_targets, m_bound_depth_stencil,
           invalidated_resources, m_memory_tree, cache_tag, write_tag,
           memory_tag, surfaces, g_sudo_mem, g_rsx_shared_tag, last,
           since_write >>

(***************************************************************************)
(* Bounds of the model.                                                    *)
(***************************************************************************)
MaxSurfaces == 3        \* create_new_surface is called at most this often
MaxTag == 4             \* rsx::get_shared_tag is called at most this often

(***************************************************************************)
(* Program constants.                                                      *)
(***************************************************************************)
nullptr == 0
NumColorSlots == 4
NumTagSamples == 5

(***************************************************************************)
(* Input domains of the public operations.                                 *)
(***************************************************************************)
GuestWords == {256, 264}
MemValues == {0, 1}

\* u32 values are written as integers of magnitude below 2^31; a negative
\* integer x stands for the wrapped value x + 2^32
u16(x) == x % 65536
u32_less(a, b) == IF (a < 0) = (b < 0) THEN a < b ELSE b < 0
u32_min(a, b) == IF u32_less(b, a) THEN b ELSE a
Min(a, b) == IF a < b THEN a ELSE b
Max(a, b) == IF a > b THEN a ELSE b

MapErase(m, k) == [x \in (DOMAIN m) \ {k} |-> m[x]]
MapPut(m, k, v) == [x \in (DOMAIN m) \cup {k} |-> IF x = k THEN v ELSE m[x]]
EmptyMap == [x \in {} |-> nullptr]
SeqRemove(q, i) == [j \in 1..(Len(q) - 1) |-> IF j < i THEN q[j] ELSE q[j + 1]]
Range(q) == {q[i] : i \in DOMAIN q}

(***************************************************************************)
(* Format registry and backend geometry.                                   *)
(***************************************************************************)
bpp(format) ==
    CASE format = "a8r8g8b8" -> 4
      [] format = "r5g6b5" -> 2
      [] format = "z24s8" -> 4
      [] format = "z16" -> 2

get_rtt_indexes(color_target) ==
    CASE color_target = "none" -> << >>
      [] color_target = "surface_a" -> << 0 >>
      [] color_target = "surface_b" -> << 1 >>
      [] color_target = "surfaces_a_b" -> << 0, 1 >>
      [] color_target = "surfaces_a_b_c" -> << 0, 1, 2 >>
      [] color_target = "surfaces_a_b_c_d" -> << 0, 1, 2, 3 >>

get_surface_width(d) == d.surface_width
get_surface_height(d) == d.surface_height
get_rsx_pitch(d) == d.rsx_pitch
get_native_pitch(d) == d.surface_width * bpp(d.format)
is_depth_surface(d) == d.format \in {"z24s8", "z16"}

get_surface_info(d) ==
    [ surface_width |-> d.surface_width,
      surface_height |-> d.surface_height,
      native_pitch |-> get_native_pitch(d),
      rsx_pitch |-> d.rsx_pitch,
      bpp |-> bpp(d.format) ]

(***************************************************************************)
(* render_target_descriptor                                                *)
(***************************************************************************)
NewDescriptor(format, width, height, pitch) ==
    [ format |-> format,
      surface_width |-> width,
      surface_height |-> height,
      rsx_pitch |-> pitch,
      last_use_tag |-> 0,
      memory_tag_samples |-> [i \in 0..(NumTagSamples - 1) |-> [first |-> 0, second |-> 0]],
      dirty |-> FALSE,
      old_contents |-> nullptr,
      read_aa_mode |-> "center_1_sample",
      write_aa_mode |-> "center_1_sample" ]

\* *reinterpret_cast<u64*>(vm::g_sudo_addr + address)
read_u64(mem, address) == IF address \in DOMAIN mem THEN mem[address] ELSE 0

save_aa_mode(d) ==
    [d EXCEPT !.read_aa_mode = d.write_aa_mode, !.write_aa_mode = "center_1_sample"]

reset_aa_mode(d) ==
    [d EXCEPT !.read_aa_mode = "center_1_sample", !.write_aa_mode = "center_1_sample"]

\* the samples the loops of test() and sync_tag() visit before their break
ArmedPrefix(d) ==
    {i \in 0..(NumTagSamples - 1) : \A j \in 0..i : d.memory_tag_samples[j].first # 0}

test(d, mem) ==
    \A i \in ArmedPrefix(d) :
        d.memory_tag_samples[i].second = read_u64(mem, d.memory_tag_samples[i].first)

set_old_contents(d, other, surf) ==
    IF other = nullptr \/ get_rsx_pitch(surf[other]) # get_rsx_pitch(d)
    THEN [d EXCEPT !.old_contents = nullptr]
    ELSE [d EXCEPT !.old_contents = other]

\* a queue_tag that also zeroes the sampled values
queue_tag_clearing(d, address) ==
    [d EXCEPT !.memory_tag_samples =
        [i \in 0..(NumTagSamples - 1) |->
            [first |-> IF i = 0 THEN address ELSE 0, second |-> 0]]]

\* a queue_tag that arms all five samples whatever the shape
queue_tag_all_samples(d, address) ==
    [d EXCEPT !.memory_tag_samples =
        [i \in 0..(NumTagSamples - 1) |->
            [first |-> address + 8 * i, second |-> d.memory_tag_samples[i].second]]]

\* a queue_tag that leaves the top right sample of a surface of many rows
\* unarmed
queue_tag_without_top_right(d, address) ==
    LET pitch == get_native_pitch(d)
        h == get_surface_height(d)
        last_row_offset == get_rsx_pitch(d) * (h - 1)
    IN  [d EXCEPT !.memory_tag_samples =
            [i \in 0..(NumTagSamples - 1) |->
                [ first |-> IF i = 0 THEN address
                            ELSE IF pitch < 16 \/ i = 1 \/ h <= 1 THEN 0
                            ELSE address + last_row_offset + i,
                  second |-> d.memory_tag_samples[i].second ]]]

queue_tag(d, address) ==
    LET pitch == get_native_pitch(d)
        h == get_surface_height(d)
        pitch2 == get_rsx_pitch(d)
        last_row_offset == pitch2 * (h - 1)
        center_row_offset == pitch2 * (h \div 2)
        top_left == [i \in 0..(NumTagSamples - 1) |->
                        [ first |-> IF i # 0 THEN 0 ELSE address,
                          second |-> d.memory_tag_samples[i].second ]]
        top_right == [top_left EXCEPT ![1].first = address + pitch - 8]
        all == [top_right EXCEPT
                    ![2].first = address + last_row_offset,
                    ![3].first = address + last_row_offset + pitch - 8,
                    ![4].first = address + center_row_offset + pitch \div 2]
    IN  [d EXCEPT !.memory_tag_samples =
            IF pitch < 16 THEN top_left
            ELSE IF h > 1 THEN all
            ELSE top_right]

sync_tag(d, mem) ==
    [d EXCEPT !.memory_tag_samples =
        [i \in 0..(NumTagSamples - 1) |->
            IF i \in ArmedPrefix(d)
            THEN [ first |-> d.memory_tag_samples[i].first,
                   second |-> read_u64(mem, d.memory_tag_samples[i].first) ]
            ELSE d.memory_tag_samples[i]]]

descriptor_on_write(d, tag, mem) ==
    LET tagged == IF tag # 0 THEN [d EXCEPT !.last_use_tag = tag] ELSE d
        synced == sync_tag(tagged, mem)
    IN  [synced EXCEPT !.read_aa_mode = synced.write_aa_mode,
                       !.dirty = FALSE,
                       !.old_contents = nullptr]

(***************************************************************************)
(* rsx::address_range (the range tracker)                                  *)
(***************************************************************************)
invalid_range == [start |-> 1, end |-> 0]

range_valid(r) == r.start <= r.end

start_length(address, length) == [start |-> address, end |-> address + (length - 1)]

start_end(first, end) == [start |-> first, end |-> end]

get_min_max(r, other) ==
    IF ~range_valid(r) THEN other
    ELSE IF ~range_valid(other) THEN r
    ELSE [start |-> Min(r.start, other.start), end |-> Max(r.end, other.end)]

range_overlaps(r, other) ==
    range_valid(r) /\ range_valid(other) /\ r.start <= other.end /\ other.start <= r.end

get_aa_factor_v(aa_mode) ==
    IF aa_mode \in {"center_1_sample", "diagonal_centered_2_samples"} THEN 1 ELSE 2

(***************************************************************************)
(* Backend traits.  A store value s is the record                          *)
(*   rtts, dss   the two maps           pool   invalidated_resources       *)
(*   surf        the surface objects    rrange, drange  the two ranges     *)
(*   log         the backend calls issued so far by the running operation  *)
(***************************************************************************)
Traits_get(storage) == storage

rtt_has_format_width_height(d, format, width, height, lenient) ==
    d.format = format /\ d.surface_width = width /\ d.surface_height = height

ds_has_format_width_height(d, format, width, height, lenient) ==
    d.format = format /\ d.surface_width = width /\ d.surface_height = height

surface_is_pitch_compatible(d, pitch) == get_rsx_pitch(d) = pitch

notify_surface_invalidated(s, storage) ==
    [s EXCEPT !.log = Append(@, <<"notify_surface_invalidated", Traits_get(storage)>>)]

notify_surface_persist(s, storage) ==
    [s EXCEPT !.log = Append(@, <<"notify_surface_persist", Traits_get(storage)>>)]

prepare_rtt_for_drawing(s, surface) ==
    [s EXCEPT !.log = Append(@, <<"prepare_rtt_for_drawing", surface>>)]

prepare_ds_for_drawing(s, surface) ==
    [s EXCEPT !.log = Append(@, <<"prepare_ds_for_drawing", surface>>)]

prepare_rtt_for_sampling(s, surface) ==
    [s EXCEPT !.log = Append(@, <<"prepare_rtt_for_sampling", surface>>),
              !.surf[surface] = save_aa_mode(@)]

prepare_ds_for_sampling(s, surface) ==
    [s EXCEPT !.log = Append(@, <<"prepare_ds_for_sampling", surface>>),
              !.surf[surface] = save_aa_mode(@)]

invalidate_surface_contents(s, surface, source, address, pitch) ==
    LET repitched == [s.surf[surface] EXCEPT !.rsx_pitch = pitch]
    IN  [s EXCEPT
            !.log = Append(@, <<"invalidate_surface_contents", surface, source, address, pitch>>),
            !.surf[surface] = queue_tag(set_old_contents(repitched, source, s.surf), address)]

create_new_surface(s, address, format, width, height, pitch, prior) ==
    LET fresh == NewDescriptor(format, width, height, pitch)
    IN  [s EXCEPT
            !.log = Append(@, <<"create_new_surface", address, format, width, height, pitch, prior>>),
            !.surf = Append(@, queue_tag(set_old_contents(fresh, prior, s.surf), address))]

\* the handle of the storage the last create_new_surface returned
created_surface(s) == Len(s.surf)

(***************************************************************************)
(* surface_store: the bind protocol                                        *)
(***************************************************************************)
\* a search of invalidated_resources that accepts no element
find_no_invalidated_rtt(s, color_format, width, height) == 0

\* a search of invalidated_resources that returns the last element the color
\* request accepts
find_last_invalidated_rtt(s, color_format, width, height) ==
    LET hits == {i \in DOMAIN s.pool :
                    rtt_has_format_width_height(s.surf[s.pool[i]], color_format, width, height, TRUE)}
    IN  IF hits = {} THEN 0 ELSE CHOOSE i \in hits : \A j \in hits : i >= j

\* the first element of invalidated_resources the color request accepts
find_invalidated_rtt(s, color_format, width, height) ==
    LET hits == {i \in DOMAIN s.pool :
                    rtt_has_format_width_height(s.surf[s.pool[i]], color_format, width, height, TRUE)}
    IN  IF hits = {} THEN 0 ELSE CHOOSE i \in hits : \A j \in hits : i <= j

\* the first element of invalidated_resources the depth request accepts
find_invalidated_ds(s, depth_format, width, height) ==
    LET hits == {i \in DOMAIN s.pool :
                    ds_has_format_width_height(s.surf[s.pool[i]], depth_format, width, height, TRUE)}
    IN  IF hits = {} THEN 0 ELSE CHOOSE i \in hits : \A j \in hits : i <= j

\* "Remove any depth surfaces occupying this memory address"
evict_aliased_depth_surface(s, address) ==
    IF address \in DOMAIN s.dss
    THEN LET noted == notify_surface_invalidated(s, s.dss[address])
         IN  [noted EXCEPT !.pool = Append(@, s.dss[address]),
                           !.dss = MapErase(@, address)]
    ELSE s

\* a depth bind that leaves the color storage of the address where it is
keep_aliased_rtt_surface(s, address) == s

\* "Remove any color surfaces occupying this memory range"
evict_aliased_rtt_surface(s, address) ==
    IF address \in DOMAIN s.rtts
    THEN LET noted == notify_surface_invalidated(s, s.rtts[address])
         IN  [noted EXCEPT !.pool = Append(@, s.rtts[address]),
                           !.rtts = MapErase(@, address)]
    ELSE s

\* a color rebind that prepares the kept surface for drawing before it
\* notifies or invalidates it
rebind_rtt_preparing_first(s, address, pitch) ==
    LET rtt == s.rtts[address]
        s1 == prepare_rtt_for_drawing(s, Traits_get(rtt))
    IN  [s |-> IF surface_is_pitch_compatible(s.surf[rtt], pitch)
               THEN notify_surface_persist(s1, rtt)
               ELSE invalidate_surface_contents(s1, Traits_get(rtt), nullptr, address, pitch),
         ret |-> Traits_get(rtt)]

\* the matching color storage at the address is kept
rebind_rtt(s, address, pitch) ==
    LET rtt == s.rtts[address]
        s1 == IF surface_is_pitch_compatible(s.surf[rtt], pitch)
              THEN notify_surface_persist(s, rtt)
              ELSE invalidate_surface_contents(s, Traits_get(rtt), nullptr, address, pitch)
    IN  [s |-> prepare_rtt_for_drawing(s1, Traits_get(rtt)), ret |-> Traits_get(rtt)]

\* the matching depth storage at the address is kept
rebind_ds(s, address, pitch) ==
    LET ds == s.dss[address]
        s1 == IF surface_is_pitch_compatible(s.surf[ds], pitch)
              THEN notify_surface_persist(s, ds)
              ELSE invalidate_surface_contents(s, Traits_get(ds), nullptr, address, pitch)
    IN  [s |-> prepare_ds_for_drawing(s1, Traits_get(ds)), ret |-> Traits_get(ds)]

\* a color installation that prepares the reused surface for drawing before
\* it invalidates its contents
install_rtt_preparing_first(s, address, color_format, antialias, width, height, pitch, old_surface, convert_surface) ==
    LET aa_factor_v == get_aa_factor_v(antialias)
        range == start_length(address, pitch * height * aa_factor_v)
        s1 == [s EXCEPT !.rrange = get_min_max(range, s.rrange)]
        contents_to_copy == IF old_surface = nullptr THEN convert_surface ELSE old_surface
        It == find_invalidated_rtt(s1, color_format, width, height)
    IN  IF It # 0
        THEN LET new_surface == Traits_get(s1.pool[It])
                 s2 == IF old_surface # nullptr
                       THEN [notify_surface_invalidated(s1, old_surface) EXCEPT
                                !.pool[It] = old_surface]
                       ELSE [s1 EXCEPT !.pool = SeqRemove(@, It)]
                 s3 == prepare_rtt_for_drawing(s2, new_surface)
                 s4 == invalidate_surface_contents(s3, new_surface, contents_to_copy, address, pitch)
             IN  [s |-> [s4 EXCEPT !.rtts = MapPut(@, address, new_surface)],
                  ret |-> new_surface]
        ELSE LET s2 == IF old_surface # nullptr
                       THEN [notify_surface_invalidated(s1, old_surface) EXCEPT
                                !.pool = Append(@, old_surface)]
                       ELSE s1
                 s3 == create_new_surface(s2, address, color_format, width, height, pitch, contents_to_copy)
             IN  [s |-> [s3 EXCEPT !.rtts = MapPut(@, address, created_surface(s3))],
                  ret |-> Traits_get(created_surface(s3))]

\* range test, pool search, installation of the color storage at the address
install_rtt(s, address, color_format, antialias, width, height, pitch, old_surface, convert_surface) ==
    LET aa_factor_v == get_aa_factor_v(antialias)
        range == start_length(address, pitch * height * aa_factor_v)
        s1 == [s EXCEPT !.rrange = get_min_max(range, s.rrange)]
        contents_to_copy == IF old_surface = nullptr THEN convert_surface ELSE old_surface
        It == find_invalidated_rtt(s1, color_format, width, height)
    IN  IF It # 0
        THEN LET new_surface == Traits_get(s1.pool[It])
                 s2 == IF old_surface # nullptr
                       THEN [notify_surface_invalidated(s1, old_surface) EXCEPT
                                !.pool[It] = old_surface]
                       ELSE [s1 EXCEPT !.pool = SeqRemove(@, It)]
                 s3 == invalidate_surface_contents(s2, new_surface, contents_to_copy, address, pitch)
                 s4 == prepare_rtt_for_drawing(s3, new_surface)
             IN  [s |-> [s4 EXCEPT !.rtts = MapPut(@, address, new_surface)],
                  ret |-> new_surface]
        ELSE LET s2 == IF old_surface # nullptr
                       THEN [notify_surface_invalidated(s1, old_surface) EXCEPT
                                !.pool = Append(@, old_surface)]
                       ELSE s1
                 s3 == create_new_surface(s2, address, color_format, width, height, pitch, contents_to_copy)
             IN  [s |-> [s3 EXCEPT !.rtts = MapPut(@, address, created_surface(s3))],
                  ret |-> Traits_get(created_surface(s3))]

\* range test, pool search, installation of the depth storage at the address
install_ds(s, address, depth_format, antialias, width, height, pitch, old_surface, convert_surface) ==
    LET aa_factor_v == get_aa_factor_v(antialias)
        range == start_length(address, pitch * height * aa_factor_v)
        s1 == [s EXCEPT !.drange = get_min_max(range, s.drange)]
        contents_to_copy == IF old_surface = nullptr THEN convert_surface ELSE old_surface
        It == find_invalidated_ds(s1, depth_format, width, height)
    IN  IF It # 0
        THEN LET new_surface == Traits_get(s1.pool[It])
                 s2 == IF old_surface # nullptr
                       THEN [notify_surface_invalidated(s1, old_surface) EXCEPT
                                !.pool[It] = old_surface]
                       ELSE [s1 EXCEPT !.pool = SeqRemove(@, It)]
                 s3 == prepare_ds_for_drawing(s2, new_surface)
                 s4 == invalidate_surface_contents(s3, new_surface, contents_to_copy, address, pitch)
             IN  [s |-> [s4 EXCEPT !.dss = MapPut(@, address, new_surface)],
                  ret |-> new_surface]
        ELSE LET s2 == IF old_surface # nullptr
                       THEN [notify_surface_invalidated(s1, old_surface) EXCEPT
                                !.pool = Append(@, old_surface)]
                       ELSE s1
                 s3 == create_new_surface(s2, address, depth_format, width, height, pitch, contents_to_copy)
             IN  [s |-> [s3 EXCEPT !.dss = MapPut(@, address, created_surface(s3))],
                  ret |-> Traits_get(created_surface(s3))]

bind_address_as_render_targets(s, address, color_format, antialias, width, height, pitch) ==
    LET convert_surface == IF address \in DOMAIN s.dss THEN Traits_get(s.dss[address]) ELSE nullptr
        s1 == evict_aliased_depth_surface(s, address)
    IN  IF address \in DOMAIN s1.rtts
        THEN IF rtt_has_format_width_height(s1.surf[s1.rtts[address]], color_format, width, height, FALSE)
             THEN rebind_rtt(s1, address, pitch)
             ELSE install_rtt([s1 EXCEPT !.rtts = MapErase(@, address)], address, color_format,
                              antialias, width, height, pitch,
                              Traits_get(s1.rtts[address]), convert_surface)
        ELSE install_rtt(s1, address, color_format, antialias, width, height, pitch,
                         nullptr, convert_surface)

\* a depth bind that forgets the color surface it evicted
bind_address_as_depth_stencil_unsourced(s, address, depth_format, antialias, width, height, pitch) ==
    LET s1 == evict_aliased_rtt_surface(s, address)
    IN  IF address \in DOMAIN s1.dss
        THEN IF ds_has_format_width_height(s1.surf[s1.dss[address]], depth_format, width, height, FALSE)
             THEN rebind_ds(s1, address, pitch)
             ELSE install_ds([s1 EXCEPT !.dss = MapErase(@, address)], address, depth_format,
                             antialias, width, height, pitch,
                             Traits_get(s1.dss[address]), nullptr)
        ELSE install_ds(s1, address, depth_format, antialias, width, height, pitch,
                        nullptr, nullptr)

bind_address_as_depth_stencil(s, address, depth_format, antialias, width, height, pitch) ==
    LET convert_surface == IF address \in DOMAIN s.rtts THEN Traits_get(s.rtts[address]) ELSE nullptr
        s1 == evict_aliased_rtt_surface(s, address)
    IN  IF address \in DOMAIN s1.dss
        THEN IF ds_has_format_width_height(s1.surf[s1.dss[address]], depth_format, width, height, FALSE)
             THEN rebind_ds(s1, address, pitch)
             ELSE install_ds([s1 EXCEPT !.dss = MapErase(@, address)], address, depth_format,
                             antialias, width, height, pitch,
                             Traits_get(s1.dss[address]), convert_surface)
        ELSE install_ds(s1, address, depth_format, antialias, width, height, pitch,
                        nullptr, convert_surface)

(***************************************************************************)
(* surface_store::prepare_render_target                                    *)
(* A bind state b is [s, brt, bds]: the store value, m_bound_render_targets*)
(* and m_bound_depth_stencil.                                              *)
(***************************************************************************)
\* "Make previous RTTs sampleable", slots i..3
RECURSIVE release_bound_rtts(_, _)
release_bound_rtts(b, i) ==
    IF i >= NumColorSlots THEN b
    ELSE LET surface == b.brt[i][2]
             s1 == IF surface # nullptr THEN prepare_rtt_for_sampling(b.s, surface) ELSE b.s
         IN  release_bound_rtts([b EXCEPT !.s = s1, !.brt[i] = <<0, nullptr>>], i + 1)

\* "Create/Reuse requested rtts", for the slots of indexes from position k on
RECURSIVE bind_requested_rtts(_, _, _, _)
bind_requested_rtts(b, indexes, k, a) ==
    IF k > Len(indexes) THEN b
    ELSE LET surface_index == indexes[k]
             address == a.surface_addresses[surface_index]
         IN  IF address = 0
             THEN bind_requested_rtts(b, indexes, k + 1, a)
             ELSE LET r == bind_address_as_render_targets(b.s, address, a.color_format,
                                a.antialias, a.clip_width, a.clip_height,
                                a.surface_pitch[surface_index])
                  IN  bind_requested_rtts(
                          [b EXCEPT !.s = r.s, !.brt[surface_index] = <<address, r.ret>>],
                          indexes, k + 1, a)

\* "Same for depth buffer"
bind_requested_ds(b, a) ==
    LET surface == b.bds[2]
        s1 == IF surface # nullptr THEN prepare_ds_for_sampling(b.s, surface) ELSE b.s
        b1 == [b EXCEPT !.s = s1, !.bds = <<0, nullptr>>]
    IN  IF a.address_z = 0 THEN b1
        ELSE LET r == bind_address_as_depth_stencil(b1.s, a.address_z, a.depth_format,
                            a.antialias, a.clip_width, a.clip_height, a.zeta_pitch)
             IN  [b1 EXCEPT !.s = r.s, !.bds = <<a.address_z, r.ret>>]

prepare_render_target(b, a) ==
    LET b1 == release_bound_rtts(b, 0)
        b2 == bind_requested_rtts(b1, get_rtt_indexes(a.target), 1, a)
    IN  bind_requested_ds(b2, a)

\* the store value and the bind state of the current state
Store ==
    [ rtts |-> m_render_targets_storage,
      dss |-> m_depth_stencil_storage,
      pool |-> invalidated_resources,
      surf |-> surfaces,
      rrange |-> m_render_targets_memory_range,
      drange |-> m_depth_stencil_memory_range,
      log |-> << >> ]

BindState == [s |-> Store, brt |-> m_bound_render_targets, bds |-> m_bound_depth_stencil]

\* rsx::get_shared_tag(): a stamp no earlier call returned
get_shared_tag == g_rsx_shared_tag + 1

\* a test of the bound slots that finds no address bound
address_is_never_bound(brt, bds, address) == FALSE

address_is_bound(brt, bds, address) ==
    \/ \E i \in 0..(NumColorSlots - 1) : brt[i][1] = address
    \/ bds[1] = address

\* a lookup that searches the color map only
get_surface_at_color_only(s, address) ==
    IF address \in DOMAIN s.rtts
    THEN [outcome |-> "returned", surface |-> Traits_get(s.rtts[address])]
    ELSE [outcome |-> "exception", surface |-> nullptr]

\* the handle returned, or the exception of fmt::throw_exception
get_surface_at(s, address) ==
    IF address \in DOMAIN s.rtts
    THEN [outcome |-> "returned", surface |-> Traits_get(s.rtts[address])]
    ELSE IF address \in DOMAIN s.dss
    THEN [outcome |-> "returned", surface |-> Traits_get(s.dss[address])]
    ELSE [outcome |-> "exception", surface |-> nullptr]

(***************************************************************************)
(* Invalidation, as functions of the store value                           *)
(***************************************************************************)
\* an invalidation that erases the color storage without keeping it
drop_rtt_at(s, addr) ==
    [notify_surface_invalidated(s, s.rtts[addr]) EXCEPT !.rtts = MapErase(@, addr)]

\* moves the color storage at addr to invalidated_resources (the map has it)
invalidate_rtt_at(s, addr) ==
    [notify_surface_invalidated(s, s.rtts[addr]) EXCEPT
        !.pool = Append(@, s.rtts[addr]),
        !.rtts = MapErase(@, addr)]

\* moves the depth storage at addr to invalidated_resources (the map has it)
invalidate_ds_at(s, addr) ==
    [notify_surface_invalidated(s, s.dss[addr]) EXCEPT
        !.pool = Append(@, s.dss[addr]),
        !.dss = MapErase(@, addr)]

\* [s, hit]: the store value after the call and whether cache_tag is bumped
invalidate_single_surface(s, surface, depth) ==
    LET refs == IF depth THEN s.dss ELSE s.rtts
        found == {address \in DOMAIN refs : Traits_get(refs[address]) = surface}
    IN  IF found = {} THEN [s |-> s, hit |-> FALSE]
        ELSE LET address == CHOOSE x \in found : TRUE
             IN  [ s |-> IF depth THEN invalidate_ds_at(s, address)
                                  ELSE invalidate_rtt_at(s, address),
                   hit |-> TRUE ]

\* an invalidation by address that does not look at the bound slots
invalidate_surface_address_unguarded(s, brt, bds, addr, depth) ==
    IF ~depth
    THEN IF addr \in DOMAIN s.rtts
         THEN [s |-> invalidate_rtt_at(s, addr), hit |-> TRUE]
         ELSE [s |-> s, hit |-> FALSE]
    ELSE IF addr \in DOMAIN s.dss
         THEN [s |-> invalidate_ds_at(s, addr), hit |-> TRUE]
         ELSE [s |-> s, hit |-> FALSE]

\* [s, hit], for the bound slots brt and bds
invalidate_surface_address(s, brt, bds, addr, depth) ==
    IF address_is_bound(brt, bds, addr) THEN [s |-> s, hit |-> FALSE]
    ELSE IF ~depth
         THEN IF addr \in DOMAIN s.rtts
              THEN [s |-> invalidate_rtt_at(s, addr), hit |-> TRUE]
              ELSE [s |-> s, hit |-> FALSE]
         ELSE IF addr \in DOMAIN s.dss
              THEN [s |-> invalidate_ds_at(s, addr), hit |-> TRUE]
              ELSE [s |-> s, hit |-> FALSE]

(***************************************************************************)
(* surface_store::generate_render_target_memory_tree                       *)
(***************************************************************************)
\* the keys of a map in ascending order, the order the model walks the maps in
RECURSIVE SortedKeys(_)
SortedKeys(keys) ==
    IF keys = {} THEN << >>
    ELSE LET least == CHOOSE x \in keys : \A y \in keys : x <= y
         IN  << least >> \o SortedKeys(keys \ {least})

\* a process_entry that does not skip the entries at or below the address
\* of the bound surface
process_entry_no_skip(info, memory_address, memory_end, address, surface, surf) ==
    IF address >= memory_end THEN << >>
    ELSE LET info2 == get_surface_info(surf[surface])
             offset == address - memory_address
             offset_y == offset \div info.rsx_pitch
             offset_x == (offset % info.rsx_pitch) \div info.bpp
         IN  << [ _ref |-> surface, memory_address |-> address,
                  x |-> offset_x, y |-> offset_y,
                  w |-> info2.surface_width, h |-> info2.surface_height ] >>

\* the overlapping_set records process_entry appends for one stored surface
process_entry(info, memory_address, memory_end, address, surface, surf) ==
    IF address <= memory_address THEN << >>
    ELSE IF address >= memory_end THEN << >>
    ELSE LET info2 == get_surface_info(surf[surface])
             offset == address - memory_address
             offset_y == offset \div info.rsx_pitch
             offset_x == (offset % info.rsx_pitch) \div info.bpp
             pitch2 == info2.bpp * info2.surface_width
             fits_w == ((offset % info.rsx_pitch) + pitch2) <= info.rsx_pitch
             fits_h == ((offset_y + info2.surface_height) * info.rsx_pitch) <= (memory_end - memory_address)
         IN  IF fits_w /\ fits_h
             THEN << [ _ref |-> surface, memory_address |-> address,
                       x |-> offset_x, y |-> offset_y,
                       w |-> info2.surface_width, h |-> info2.surface_height ] >>
             ELSE << >>

RECURSIVE process_entries(_, _, _, _, _, _, _)
process_entries(info, memory_address, memory_end, data, keys, k, surf) ==
    IF k > Len(keys) THEN << >>
    ELSE process_entry(info, memory_address, memory_end, keys[k], Traits_get(data[keys[k]]), surf)
         \o process_entries(info, memory_address, memory_end, data, keys, k + 1, surf)

\* the blocks process_block appends to m_memory_tree for one bound surface
process_block(s, memory_address, surface) ==
    LET info == get_surface_info(s.surf[surface])
        memory_end == memory_address + (info.rsx_pitch * info.surface_height)
        overlapping_set ==
            process_entries(info, memory_address, memory_end, s.rtts,
                            SortedKeys(DOMAIN s.rtts), 1, s.surf)
            \o process_entries(info, memory_address, memory_end, s.dss,
                               SortedKeys(DOMAIN s.dss), 1, s.surf)
    IN  IF overlapping_set # << >>
        THEN << [ memory_address |-> memory_address,
                  memory_range |-> memory_end - memory_address,
                  memory_contents |-> surface,
                  overlapping_set |-> overlapping_set ] >>
        ELSE << >>

RECURSIVE process_bound_rtts(_, _, _)
process_bound_rtts(s, brt, i) ==
    IF i >= NumColorSlots THEN << >>
    ELSE (IF brt[i][1] # 0 THEN process_block(s, brt[i][1], brt[i][2]) ELSE << >>)
         \o process_bound_rtts(s, brt, i + 1)

\* the tree after the call: the blocks are pushed onto the tree as it is
generate_render_target_memory_tree(tree, s, brt, bds) ==
    tree \o process_bound_rtts(s, brt, 0)
         \o (IF bds[1] # 0 THEN process_block(s, bds[1], bds[2]) ELSE << >>)

(***************************************************************************)
(* surface_store::on_write                                                 *)
(* w is [write_tag, memory_tag, tree, surf]; the result has the same shape *)
(***************************************************************************)
\* an on_write that marks no surface of the tree dirty
dirtied_by_none(tree, address) == {}

\* the surfaces the blocks selected by address mark dirty
dirtied_by_tree(tree, address) ==
    UNION { {tree[i].overlapping_set[j]._ref : j \in DOMAIN tree[i].overlapping_set} :
            i \in {k \in DOMAIN tree : ~(address # 0 /\ tree[k].memory_address # address)} }

\* the bound surfaces whose on_write(write_tag) the call issues
written_by_on_write(brt, bds, address) ==
    { brt[i][2] : i \in {k \in 0..(NumColorSlots - 1) :
                            ~(address # 0 /\ brt[k][1] # address) /\ brt[k][2] # nullptr} }
    \cup (IF bds[2] # nullptr /\ (address = 0 \/ bds[1] = address) THEN {bds[2]} ELSE {})

\* everything after the write_tag test
on_write_body(w, s, brt, bds, address, mem) ==
    LET tree == IF w.memory_tag # w.cache_tag
                THEN generate_render_target_memory_tree(w.tree, s, brt, bds)
                ELSE w.tree
        dirtied == dirtied_by_tree(tree, address)
        written == written_by_on_write(brt, bds, address)
        marked == [h \in DOMAIN s.surf |->
                      IF h \in dirtied THEN [s.surf[h] EXCEPT !.dirty = TRUE] ELSE s.surf[h]]
    IN  [ w EXCEPT !.memory_tag = w.cache_tag,
                   !.tree = tree,
                   !.surf = [h \in DOMAIN s.surf |->
                                IF h \in written
                                THEN descriptor_on_write(marked[h], w.write_tag, mem)
                                ELSE marked[h]] ]

\* an on_write that does not return early when write_tag is cache_tag
on_write_unconditional(w, s, brt, bds, address, mem) ==
    IF address = 0
    THEN on_write_body([w EXCEPT !.write_tag = w.cache_tag], s, brt, bds, address, mem)
    ELSE on_write_body(w, s, brt, bds, address, mem)

on_write(w, s, brt, bds, address, mem) ==
    IF address = 0
    THEN IF w.write_tag = w.cache_tag
         THEN w
         ELSE on_write_body([w EXCEPT !.write_tag = w.cache_tag], s, brt, bds, address, mem)
    ELSE on_write_body(w, s, brt, bds, address, mem)

WriteState ==
    [ cache_tag |-> cache_tag, write_tag |-> write_tag, memory_tag |-> memory_tag,
      tree |-> m_memory_tree, surf |-> surfaces ]

(***************************************************************************)
(* surface_store::get_merged_texture_memory_region                         *)
(* A query q is [texaddr, required_width, required_height, required_pitch].*)
(***************************************************************************)
\* the order of the values of rsx::surface_antialiasing
aa_rank(aa_mode) ==
    CASE aa_mode = "center_1_sample" -> 0
      [] aa_mode = "diagonal_centered_2_samples" -> 3
      [] aa_mode = "square_centered_4_samples" -> 4
      [] aa_mode = "square_rotated_4_samples" -> 5

pitch_compatible(d, required_pitch, required_height) == get_rsx_pitch(d) = required_pitch

\* a projection that reports every candidate whole and unclipped
overlap_info_full_surface(d, surface, this_address, is_depth, q) ==
    [ surface |-> surface, base_address |-> this_address, is_depth |-> is_depth,
      is_clipped |-> FALSE, src_x |-> 0, src_y |-> 0, dst_x |-> 0, dst_y |-> 0,
      width |-> get_surface_width(d), height |-> get_surface_height(d) ]

\* the record built for a surface that passed the filters
overlap_info(d, surface, this_address, is_depth, q) ==
    LET scale_x == IF aa_rank(d.read_aa_mode) > aa_rank("center_1_sample") THEN 2 ELSE 1
        scale_y == IF aa_rank(d.read_aa_mode) > aa_rank("diagonal_centered_2_samples") THEN 2 ELSE 1
        surface_info == get_surface_info(d)
    IN  IF this_address < q.texaddr
        THEN LET int_required_width == q.required_width \div scale_x
                 int_required_height == q.required_height \div scale_y
                 offset == q.texaddr - this_address
                 src_y == u16((offset \div q.required_pitch) \div scale_y)
                 src_x == u16(((offset % q.required_pitch) \div surface_info.bpp) \div scale_x)
                 width == u16(u32_min(int_required_width, surface_info.surface_width - src_x))
                 height == u16(u32_min(int_required_height, surface_info.surface_height - src_y))
             IN  [ surface |-> surface, base_address |-> this_address, is_depth |-> is_depth,
                   is_clipped |-> (width < int_required_width \/ height < int_required_height),
                   src_x |-> src_x, src_y |-> src_y, dst_x |-> 0, dst_y |-> 0,
                   width |-> width, height |-> height ]
        ELSE LET int_surface_width == surface_info.surface_width * scale_x
                 int_surface_height == surface_info.surface_height * scale_y
                 offset == this_address - q.texaddr
                 dst_y == u16(offset \div q.required_pitch)
                 dst_x == u16((offset % q.required_pitch) \div surface_info.bpp)
                 width == u16(u32_min(int_surface_width, q.required_width - dst_x))
                 height == u16(u32_min(int_surface_height, q.required_height - dst_y))
             IN  [ surface |-> surface, base_address |-> this_address, is_depth |-> is_depth,
                   is_clipped |-> (width < q.required_width \/ height < q.required_height),
                   src_x |-> 0, src_y |-> 0, dst_x |-> dst_x, dst_y |-> dst_y,
                   width |-> width \div scale_x, height |-> height \div scale_y ]

\* [result, dirty] after the map data was walked in the order keys, from k on
RECURSIVE process_list_function(_, _, _, _, _, _, _, _)
process_list_function(acc, data, keys, k, is_depth, surf, mem, q) ==
    IF k > Len(keys) THEN acc
    ELSE LET this_address == keys[k]
             limit == q.texaddr + (q.required_pitch * q.required_height)
             surface == Traits_get(data[this_address])
             d == surf[surface]
             pitch == get_rsx_pitch(d)
             scale_y == IF aa_rank(d.read_aa_mode) > aa_rank("diagonal_centered_2_samples") THEN 2 ELSE 1
             texture_size == pitch * get_surface_height(d) * scale_y
             next ==
                IF this_address >= limit THEN acc
                ELSE IF ~pitch_compatible(d, q.required_pitch, q.required_height) THEN acc
                ELSE IF (this_address + texture_size) <= q.texaddr THEN acc
                ELSE IF ~test(d, mem)
                     THEN [acc EXCEPT !.dirty = Append(@, <<this_address, is_depth>>)]
                     ELSE [acc EXCEPT !.result =
                              Append(@, overlap_info(d, surface, this_address, is_depth, q))]
         IN  process_list_function(next, data, keys, k + 1, is_depth, surf, mem, q)

\* "Range test helper to quickly discard blocks": [result, dirty] of both walks
scan_storages(s, rtt_keys, ds_keys, mem, q) ==
    LET limit == q.texaddr + (q.required_pitch * q.required_height)
        test_range == start_end(q.texaddr, limit - 1)
        none == [result |-> << >>, dirty |-> << >>]
        colors == IF range_overlaps(test_range, s.rrange)
                  THEN process_list_function(none, s.rtts, rtt_keys, 1, FALSE, s.surf, mem, q)
                  ELSE none
    IN  IF range_overlaps(test_range, s.drange)
        THEN process_list_function(colors, s.dss, ds_keys, 1, TRUE, s.surf, mem, q)
        ELSE colors

\* [s, hits]: the entries of the dirty list from k on invalidated in turn
RECURSIVE invalidate_dirty(_, _, _, _, _)
invalidate_dirty(acc, dirty, k, brt, bds) ==
    IF k > Len(dirty) THEN acc
    ELSE LET r == invalidate_surface_address(acc.s, brt, bds, dirty[k][1], dirty[k][2])
         IN  invalidate_dirty([s |-> r.s, hits |-> acc.hits + (IF r.hit THEN 1 ELSE 0)],
                              dirty, k + 1, brt, bds)

\* the comparison handed to std::sort
sort_less(a, b, surf) ==
    IF surf[a.surface].last_use_tag = surf[b.surface].last_use_tag
    THEN (a.width * a.height) < (b.width * b.height)
    ELSE surf[a.surface].last_use_tag < surf[b.surface].last_use_tag

\* a query that returns the records in the order the maps were walked in
unsorted_results(result, surf) == { result }

\* the arrangements of result std::sort may return
sorted_results(result, surf) ==
    IF Len(result) > 1
    THEN { [i \in DOMAIN result |-> result[p[i]]] :
             p \in { p \in [DOMAIN result -> DOMAIN result] :
                       /\ \A i, j \in DOMAIN result : i # j => p[i] # p[j]
                       /\ \A i, j \in DOMAIN result :
                             i < j => ~sort_less(result[p[j]], result[p[i]], surf) } }
    ELSE { result }

\* [s, hits, result, dirty] before the sort
get_merged_texture_memory_region(s, brt, bds, rtt_keys, ds_keys, mem, q) ==
    LET scanned == scan_storages(s, rtt_keys, ds_keys, mem, q)
        pruned == invalidate_dirty([s |-> s, hits |-> 0], scanned.dirty, 1, brt, bds)
    IN  [ s |-> pruned.s, hits |-> pruned.hits,
          result |-> scanned.result, dirty |-> scanned.dirty ]

\* the orders an unordered_map with these keys can be walked in
WalkOrders(keys) ==
    { o \in [1..Cardinality(keys) -> keys] : \A i, j \in 1..Cardinality(keys) : i # j => o[i] # o[j] }

(***************************************************************************)
(* The state machine: one action per public operation of the store, plus   *)
(* the guest writing a word of its memory.                                 *)
(***************************************************************************)
\* an argument tuple of prepare_render_target: layout is the target with
\* its four color addresses, clip the width and height; every surface of the
\* call has the same pitch
PrepareArg(layout, clip, az, pitch) ==
    [ color_format |-> "a8r8g8b8", depth_format |-> "z24s8",
      clip_width |-> clip[1], clip_height |-> clip[2],
      target |-> layout[1], antialias |-> "center_1_sample",
      surface_addresses |-> [i \in 0..(NumColorSlots - 1) |-> layout[2][i + 1]],
      address_z |-> az,
      surface_pitch |-> [i \in 0..(NumColorSlots - 1) |-> pitch],
      zeta_pitch |-> pitch ]

Query(texaddr, clip, pitch) ==
    [ texaddr |-> texaddr, required_width |-> clip[1], required_height |-> clip[2],
      required_pitch |-> pitch ]

\* what last holds when the latest call is not one of those recorded
unrecorded == [op |-> "none", args |-> << >>, log |-> << >>, result |-> << >>, after |-> "none"]

Init ==
    /\ m_render_targets_storage = EmptyMap
    /\ m_depth_stencil_storage = EmptyMap
    /\ m_render_targets_memory_range = invalid_range
    /\ m_depth_stencil_memory_range = invalid_range
    /\ m_bound_render_targets = [i \in 0..(NumColorSlots - 1) |-> <<0, nullptr>>]
    /\ m_bound_depth_stencil = <<0, nullptr>>
    /\ invalidated_resources = << >>
    /\ m_memory_tree = << >>
    /\ cache_tag = 0
    /\ write_tag = 0
    /\ memory_tag = 0
    /\ surfaces = << >>
    /\ g_sudo_mem = [x \in GuestWords |-> 0]
    /\ g_rsx_shared_tag = 0
    /\ last = unrecorded
    /\ since_write = "none"

\* the call is written to last when its operation is one of those recorded
\* (h), with the operation of the call before it
Observe(h, call) ==
    last' = IF call.op \in h
            THEN [ op |-> call.op, args |-> call.args, log |-> call.log,
                   result |-> call.result, after |-> last.op ]
            ELSE unrecorded

\* the part of the state a store value carries
SetStore(s) ==
    /\ m_render_targets_storage' = s.rtts
    /\ m_depth_stencil_storage' = s.dss
    /\ invalidated_resources' = s.pool
    /\ surfaces' = s.surf
    /\ m_render_targets_memory_range' = s.rrange
    /\ m_depth_stencil_memory_range' = s.drange

PrepareRenderTarget(h, a) ==
    LET b == prepare_render_target(BindState, a)
    IN  /\ g_rsx_shared_tag < MaxTag
        /\ Len(b.s.surf) <= MaxSurfaces
        /\ cache_tag' = get_shared_tag
        /\ g_rsx_shared_tag' = get_shared_tag
        /\ m_memory_tree' = << >>
        /\ SetStore(b.s)
        /\ m_bound_render_targets' = b.brt
        /\ m_bound_depth_stencil' = b.bds
        /\ Observe(h, [op |-> "prepare_render_target", args |-> a, log |-> b.s.log, result |-> << >>])
        /\ since_write' = "bumped"
        /\ UNCHANGED << write_tag, memory_tag, g_sudo_mem >>

InvalidateSingleSurface(h, surface, depth) ==
    LET r == invalidate_single_surface(Store, surface, depth)
    IN  /\ r.hit => g_rsx_shared_tag < MaxTag
        /\ SetStore(r.s)
        /\ cache_tag' = IF r.hit THEN get_shared_tag ELSE cache_tag
        /\ g_rsx_shared_tag' = IF r.hit THEN get_shared_tag ELSE g_rsx_shared_tag
        /\ Observe(h, [op |-> "invalidate_single_surface", args |-> <<surface, depth>>,
                    log |-> r.s.log, result |-> << >>])
        /\ since_write' = IF r.hit THEN "bumped" ELSE since_write
        /\ UNCHANGED << m_bound_render_targets, m_bound_depth_stencil, m_memory_tree,
                        write_tag, memory_tag, g_sudo_mem >>

InvalidateSurfaceAddress(h, addr, depth) ==
    LET r == invalidate_surface_address(Store, m_bound_render_targets, m_bound_depth_stencil, addr, depth)
    IN  /\ r.hit => g_rsx_shared_tag < MaxTag
        /\ SetStore(r.s)
        /\ cache_tag' = IF r.hit THEN get_shared_tag ELSE cache_tag
        /\ g_rsx_shared_tag' = IF r.hit THEN get_shared_tag ELSE g_rsx_shared_tag
        /\ Observe(h, [op |-> "invalidate_surface_address", args |-> <<addr, depth>>,
                    log |-> r.s.log, result |-> << >>])
        /\ since_write' = IF r.hit THEN "bumped" ELSE since_write
        /\ UNCHANGED << m_bound_render_targets, m_bound_depth_stencil, m_memory_tree,
                        write_tag, memory_tag, g_sudo_mem >>

GetMergedTextureMemoryRegion(h, q) ==
    \E rtt_keys \in WalkOrders(DOMAIN m_render_targets_storage) :
    \E ds_keys \in WalkOrders(DOMAIN m_depth_stencil_storage) :
        LET r == get_merged_texture_memory_region(Store, m_bound_render_targets,
                     m_bound_depth_stencil, rtt_keys, ds_keys, g_sudo_mem, q)
        IN  /\ g_rsx_shared_tag + r.hits <= MaxTag
            /\ SetStore(r.s)
            /\ cache_tag' = IF r.hits > 0 THEN g_rsx_shared_tag + r.hits ELSE cache_tag
            /\ g_rsx_shared_tag' = g_rsx_shared_tag + r.hits
            /\ \E sorted \in sorted_results(r.result, surfaces) :
                  Observe(h, [op |-> "get_merged_texture_memory_region", args |-> q,
                           log |-> r.s.log, result |-> [overlaps |-> sorted, dirty |-> r.dirty]])
            /\ since_write' = IF r.hits > 0 THEN "bumped" ELSE since_write
            /\ UNCHANGED << m_bound_render_targets, m_bound_depth_stencil, m_memory_tree,
                            write_tag, memory_tag, g_sudo_mem >>

OnWrite(h, address) ==
    LET w == on_write(WriteState, Store, m_bound_render_targets, m_bound_depth_stencil,
                      address, g_sudo_mem)
    IN  /\ write_tag' = w.write_tag
        /\ memory_tag' = w.memory_tag
        /\ m_memory_tree' = w.tree
        /\ surfaces' = w.surf
        /\ Observe(h, [op |-> "on_write", args |-> <<address>>, log |-> << >>, result |-> << >>])
        /\ since_write' = IF address # 0 THEN since_write
                          ELSE IF since_write \in {"clean", "repeated"} THEN "repeated"
                          ELSE "clean"
        /\ UNCHANGED << m_render_targets_storage, m_depth_stencil_storage,
                        m_render_targets_memory_range, m_depth_stencil_memory_range,
                        m_bound_render_targets, m_bound_depth_stencil,
                        invalidated_resources, cache_tag, g_sudo_mem, g_rsx_shared_tag >>

NotifyMemoryStructureChanged(h) ==
    /\ g_rsx_shared_tag < MaxTag
    /\ cache_tag' = get_shared_tag
    /\ g_rsx_shared_tag' = get_shared_tag
    /\ Observe(h, [op |-> "notify_memory_structure_changed", args |-> << >>,
                log |-> << >>, result |-> << >>])
    /\ since_write' = "bumped"
    /\ UNCHANGED << m_render_targets_storage, m_depth_stencil_storage,
                    m_render_targets_memory_range, m_depth_stencil_memory_range,
                    m_bound_render_targets, m_bound_depth_stencil,
                    invalidated_resources, m_memory_tree, write_tag, memory_tag,
                    surfaces, g_sudo_mem >>

\* the guest stores another value into one of its words
GuestWrite(h, address, value) ==
    /\ g_sudo_mem[address] # value
    /\ g_sudo_mem' = [g_sudo_mem EXCEPT ![address] = value]
    /\ Observe(h, [op |-> "guest_write", args |-> <<address, value>>,
                log |-> << >>, result |-> << >>])
    /\ UNCHANGED << m_render_targets_storage, m_depth_stencil_storage,
                    m_render_targets_memory_range, m_depth_stencil_memory_range,
                    m_bound_render_targets, m_bound_depth_stencil,
                    invalidated_resources, m_memory_tree, cache_tag, write_tag,
                    memory_tag, surfaces, g_rsx_shared_tag, since_write >>

\* the steps of the store under the inputs c: c.prepare, c.queries the
\* argument tuples, c.invalidate and c.write the addresses, c.words the guest
\* words written
NextOver(c) ==
    \/ \E a \in c.prepare : PrepareRenderTarget(c.history, a)
    \/ \E surface \in DOMAIN surfaces, depth \in BOOLEAN : InvalidateSingleSurface(c.history, surface, depth)
    \/ \E addr \in c.invalidate, depth \in BOOLEAN : InvalidateSurfaceAddress(c.history, addr, depth)
    \/ \E q \in c.queries : GetMergedTextureMemoryRegion(c.history, q)
    \/ \E address \in c.write : OnWrite(c.history, address)
    \/ NotifyMemoryStructureChanged(c.history)
    \/ \E address \in c.words, value \in MemValues : GuestWrite(c.history, address, value)

Small == << 2, 2 >>
Big == << 8, 4 >>

\* color and depth binds over two addresses, one surface shape
AliasInputs ==
    [ history |-> {},
      prepare |-> { PrepareArg(layout, Small, az, 32) :
                        layout \in { << "none", << 0, 0, 0, 0 >> >>,
                                     << "surface_a", << 256, 0, 0, 0 >> >>,
                                     << "surfaces_a_b", << 256, 264, 0, 0 >> >> },
                        az \in {0, 256} },
      invalidate |-> {256, 264},
      queries |-> { Query(256, Small, 32) },
      write |-> {0},
      words |-> {256} ]

Next == NextOver(AliasInputs)

Spec == Init /\ [][Next]_vars

\* draws over two neighbouring color surfaces, the draws and queries recorded
WriteInputs ==
    [ history |-> {"on_write", "get_merged_texture_memory_region"},
      prepare |-> { PrepareArg(layout, Small, 0, 32) :
                        layout \in { << "none", << 0, 0, 0, 0 >> >>,
                                     << "surface_a", << 256, 0, 0, 0 >> >>,
                                     << "surfaces_a_b", << 256, 264, 0, 0 >> >> } },
      invalidate |-> {256},
      queries |-> { Query(256, Small, 32) },
      write |-> {0, 256},
      words |-> {256} ]

WriteNext == NextOver(WriteInputs)

WriteSpec == Init /\ [][WriteNext]_vars

\* binds and releases of one color surface, the binds and the invalidations
\* by address recorded
PoolInputs ==
    [ history |-> {"prepare_render_target", "invalidate_surface_address"},
      prepare |-> { PrepareArg(<< "none", << 0, 0, 0, 0 >> >>, Small, 0, 32),
                    PrepareArg(<< "surface_a", << 256, 0, 0, 0 >> >>, Small, 0, 32),
                    PrepareArg(<< "surface_a", << 256, 0, 0, 0 >> >>, Small, 256, 32) },
      invalidate |-> {256},
      queries |-> { Query(256, Small, 32) },
      write |-> {0},
      words |-> {256} ]

PoolNext == NextOver(PoolInputs)

PoolSpec == Init /\ [][PoolNext]_vars

\* binds of two shapes and of both types at one address, the binds recorded
ShapeInputs ==
    [ history |-> {"prepare_render_target"},
      prepare |-> { PrepareArg(<< "none", << 0, 0, 0, 0 >> >>, Small, 0, 32),
                    PrepareArg(<< "none", << 0, 0, 0, 0 >> >>, Small, 256, 32),
                    PrepareArg(<< "surface_a", << 256, 0, 0, 0 >> >>, Small, 0, 32),
                    PrepareArg(<< "surface_a", << 256, 0, 0, 0 >> >>, Big, 0, 32),
                    PrepareArg(<< "surface_a", << 256, 0, 0, 0 >> >>, Big, 256, 32) },
      invalidate |-> {256},
      queries |-> { Query(256, Small, 32) },
      write |-> {0},
      words |-> {256} ]

ShapeNext == NextOver(ShapeInputs)

ShapeSpec == Init /\ [][ShapeNext]_vars

(***************************************************************************)
(* Queries over the surfaces one or two frames leave behind.  A frame is   *)
(* prepare_render_target, the backend storing the antialiasing mode of the *)
(* draw into the bound surfaces, and on_write().                           *)
(***************************************************************************)
\* the backend stores the antialiasing mode of the coming draw into
\* write_aa_mode of every bound surface
SetWriteAaMode(h, mode) ==
    LET bound == ({m_bound_render_targets[i][2] : i \in 0..(NumColorSlots - 1)}
                     \cup {m_bound_depth_stencil[2]}) \ {nullptr}
    IN  /\ \E x \in bound : surfaces[x].write_aa_mode # mode
        /\ surfaces' = [x \in DOMAIN surfaces |->
                            IF x \in bound
                            THEN [surfaces[x] EXCEPT !.write_aa_mode = mode]
                            ELSE surfaces[x]]
        /\ Observe(h, [op |-> "set_write_aa_mode", args |-> << mode >>,
                    log |-> << >>, result |-> << >>])
        /\ UNCHANGED << m_render_targets_storage, m_depth_stencil_storage,
                        m_render_targets_memory_range, m_depth_stencil_memory_range,
                        m_bound_render_targets, m_bound_depth_stencil,
                        invalidated_resources, m_memory_tree, cache_tag, write_tag,
                        memory_tag, g_sudo_mem, g_rsx_shared_tag, since_write >>

Wide == << 64, 64 >>

AaModes == {"center_1_sample", "diagonal_centered_2_samples", "square_centered_4_samples"}

\* the frames drawn: a color surface of one of two shapes at 256 or a wide
\* one at 0x01000400 or none, and a depth surface at 264 or none
QueryFrames ==
    { PrepareArg(draw[1], draw[2], az, draw[3]) :
        draw \in { << << "none", << 0, 0, 0, 0 >> >>, Small, 32 >>,
                   << << "surface_a", << 256, 0, 0, 0 >> >>, Small, 32 >>,
                   << << "surface_a", << 256, 0, 0, 0 >> >>, Big, 32 >>,
                   << << "surface_a", << 16778240, 0, 0, 0 >> >>, Wide, 256 >> },
        az \in {0, 264} }

QueryInputs ==
    [ history |-> {"get_merged_texture_memory_region"},
      queries |-> { Query(256, Small, 32), Query(256, Big, 32), Query(272, Small, 32),
                    Query(240, Small, 32), Query(16777216, << 128, 64 >>, 256) },
      words |-> {256} ]

\* at most two frames are drawn, each of them a bind, the antialiasing mode
\* and a draw, and the store is queried between and after them
QueryNext ==
    \/ /\ since_write \in {"none", "clean"}
       /\ g_rsx_shared_tag < 2
       /\ \E a \in QueryFrames : PrepareRenderTarget(QueryInputs.history, a)
    \/ /\ since_write = "bumped"
       /\ \E mode \in AaModes : SetWriteAaMode(QueryInputs.history, mode)
    \/ /\ since_write = "bumped"
       /\ OnWrite(QueryInputs.history, 0)
    \/ /\ since_write = "clean"
       /\ \E q \in QueryInputs.queries : GetMergedTextureMemoryRegion(QueryInputs.history, q)
    \/ /\ since_write = "clean"
       /\ \E address \in QueryInputs.words, value \in MemValues :
             GuestWrite(QueryInputs.history, address, value)

QuerySpec == Init /\ [][QueryNext]_vars

(***************************************************************************)
(* The samples of one bound color surface: the backend arming them with    *)
(* queue_tag, draws to the surface refreshing them, the guest writing.     *)
(***************************************************************************)
\* the backend calls queue_tag(address) on the surface
QueueTag(h, surface, address) ==
    /\ surfaces' = [surfaces EXCEPT ![surface] = queue_tag(@, address)]
    /\ Observe(h, [op |-> "queue_tag", args |-> << surface, address >>,
                log |-> << >>, result |-> << >>])
    /\ UNCHANGED << m_render_targets_storage, m_depth_stencil_storage,
                    m_render_targets_memory_range, m_depth_stencil_memory_range,
                    m_bound_render_targets, m_bound_depth_stencil,
                    invalidated_resources, m_memory_tree, cache_tag, write_tag,
                    memory_tag, g_sudo_mem, g_rsx_shared_tag, since_write >>

Line == << 8, 1 >>
Narrow == << 3, 4 >>

\* one color surface at 256: narrower than 16 bytes, of one row, of many rows
TagFrames ==
    { PrepareArg(<< "surface_a", << 256, 0, 0, 0 >> >>, shape, 0, 32) :
        shape \in { Small, Narrow, Line, Big } }

TagInputs ==
    [ history |-> {"queue_tag"},
      bases |-> {256, 264},
      write |-> {256},
      words |-> {256, 264} ]

\* the bind that creates the surface, then the calls on it
TagNext ==
    \/ /\ surfaces = << >>
       /\ \E a \in TagFrames : PrepareRenderTarget(TagInputs.history, a)
    \/ \E surface \in DOMAIN surfaces, address \in TagInputs.bases :
          QueueTag(TagInputs.history, surface, address)
    \/ \E address \in TagInputs.write : OnWrite(TagInputs.history, address)
    \/ \E address \in TagInputs.words, value \in MemValues :
          GuestWrite(TagInputs.history, address, value)

TagSpec == Init /\ [][TagNext]_vars

(***************************************************************************)
(* Draws to a color surface at 256 of changing shape while a neighbour     *)
(* drawn in the first frame stays stored at 264; the binds and the draws   *)
(* recorded.                                                               *)
(***************************************************************************)
TreeFrames ==
    { PrepareArg(<< "surfaces_a_b", << 256, 264, 0, 0 >> >>, shape, 0, 32) :
        shape \in { Small, Big } }

TreeInputs ==
    [ history |-> {"prepare_render_target", "on_write"},
      prepare |-> { PrepareArg(<< "surface_a", << 256, 0, 0, 0 >> >>, Small, 0, 32),
                    PrepareArg(<< "surface_a", << 256, 0, 0, 0 >> >>, Big, 0, 32) },
      invalidate |-> {264},
      queries |-> { Query(256, Small, 32) },
      write |-> {0},
      words |-> {256} ]

\* the bind that creates both surfaces, then the public operations
TreeNext ==
    \/ \E a \in (IF surfaces = << >> THEN TreeFrames ELSE TreeInputs.prepare) :
          PrepareRenderTarget(TreeInputs.history, a)
    \/ \E surface \in DOMAIN surfaces, depth \in BOOLEAN :
          InvalidateSingleSurface(TreeInputs.history, surface, depth)
    \/ /\ surfaces # << >>
       /\ \E addr \in TreeInputs.invalidate, depth \in BOOLEAN :
             InvalidateSurfaceAddress(TreeInputs.history, addr, depth)
    \/ /\ surfaces # << >>
       /\ \E q \in TreeInputs.queries : GetMergedTextureMemoryRegion(TreeInputs.history, q)
    \/ /\ surfaces # << >>
       /\ \E address \in TreeInputs.write : OnWrite(TreeInputs.history, address)
    \/ /\ surfaces # << >>
       /\ NotifyMemoryStructureChanged(TreeInputs.history)
    \/ /\ surfaces # << >>
       /\ \E address \in TreeInputs.words, value \in MemValues :
             GuestWrite(TreeInputs.history, address, value)

TreeSpec == Init /\ [][TreeNext]_vars

(***************************************************************************)
(* Lookups by address over a color surface at 256 and a depth surface at   *)
(* 264; the lookups recorded.                                              *)
(***************************************************************************)
GetSurfaceAt(h, address) ==
    /\ Observe(h, [op |-> "get_surface_at", args |-> << address >>, log |-> << >>,
                result |-> get_surface_at(Store, address)])
    /\ UNCHANGED << m_render_targets_storage, m_depth_stencil_storage,
                    m_render_targets_memory_range, m_depth_stencil_memory_range,
                    m_bound_render_targets, m_bound_depth_stencil,
                    invalidated_resources, m_memory_tree, cache_tag, write_tag,
                    memory_tag, surfaces, g_sudo_mem, g_rsx_shared_tag, since_write >>

LookupInputs ==
    [ history |-> {"get_surface_at"},
      prepare |-> { PrepareArg(<< "none", << 0, 0, 0, 0 >> >>, Small, 0, 32),
                    PrepareArg(<< "none", << 0, 0, 0, 0 >> >>, Small, 264, 32),
                    PrepareArg(<< "surface_a", << 256, 0, 0, 0 >> >>, Small, 0, 32),
                    PrepareArg(<< "surface_a", << 256, 0, 0, 0 >> >>, Small, 264, 32) },
      invalidate |-> {256, 264},
      queries |-> { Query(256, Small, 32) },
      write |-> {0},
      words |-> {256},
      lookups |-> {256, 264, 272} ]

LookupNext ==
    \/ NextOver(LookupInputs)
    \/ \E address \in LookupInputs.lookups : GetSurfaceAt(LookupInputs.history, address)

LookupSpec == Init /\ [][LookupNext]_vars

(***************************************************************************)
(* surface_store::get_render_targets_data.  A buffer is modelled by its    *)
(* size: a span by its number of elements, a vector by its number of bytes.*)
(* A read or a subspan past the end of a span is a contract violation of   *)
(* gsl::span, which ends the call, or where the contracts are not enforced *)
(* a read past the end of the mapping.                                     *)
(***************************************************************************)
align(value, alignment) == ((value + alignment - 1) \div alignment) * alignment

get_aligned_pitch(format, width) == align(width * bpp(format), 256)

get_packed_pitch(format, width) == width * bpp(format)

\* the size in bytes of the span Traits::map_downloaded_buffer returns: the
\* downloaded rows, or nothing when the map failed
map_downloaded_buffer(format, width, height, mapped) ==
    IF mapped THEN get_aligned_pitch(format, width) * height ELSE 0

as_const_span(size_bytes, size_of_T) == size_bytes \div size_of_T

\* whether rows row..height-1 are copied inside both spans, given the
\* elements left in each
RECURSIVE copy_pitched_src_to_dst(_, _, _, _, _, _)
copy_pitched_src_to_dst(dest, src, src_pitch_in_elements, width, height, row) ==
    IF row >= height THEN TRUE
    ELSE IF width > 0 /\ (width > dest \/ width > src) THEN FALSE
    ELSE IF src_pitch_in_elements > src \/ width > dest THEN FALSE
    ELSE copy_pitched_src_to_dst(dest - width, src - src_pitch_in_elements,
                                 src_pitch_in_elements, width, height, row + 1)

\* the results the call can end with: the sizes of the four vectors, or the
\* contract violation
get_render_targets_data(brt, a) ==
    LET src_pitch == get_aligned_pitch(a.color_format, a.width)
        dst_pitch == get_packed_pitch(a.color_format, a.width)
        element == bpp(a.color_format)
        bound == {i \in 0..(NumColorSlots - 1) : brt[i][1] # 0}
        copied(i) ==
            copy_pitched_src_to_dst(
                (dst_pitch * a.height) \div element,
                as_const_span(map_downloaded_buffer(a.color_format, a.width, a.height,
                                                    a.mapped[i]), element),
                src_pitch \div element, a.width, a.height, 0)
        sizes == [i \in 0..(NumColorSlots - 1) |->
                     IF i \in bound THEN dst_pitch * a.height ELSE 0]
    IN  IF \A i \in bound : copied(i)
        THEN { [outcome |-> "returned", sizes |-> sizes] }
        ELSE { [outcome |-> "contract_violation", sizes |-> << >>],
               [outcome |-> "returned", sizes |-> sizes] }

GetRenderTargetsData(h, a) ==
    /\ \E r \in get_render_targets_data(m_bound_render_targets, a) :
          Observe(h, [op |-> "get_render_targets_data", args |-> a, log |-> << >>,
                      result |-> r])
    /\ UNCHANGED << m_render_targets_storage, m_depth_stencil_storage,
                    m_render_targets_memory_range, m_depth_stencil_memory_range,
                    m_bound_render_targets, m_bound_depth_stencil,
                    invalidated_resources, m_memory_tree, cache_tag, write_tag,
                    memory_tag, surfaces, g_sudo_mem, g_rsx_shared_tag, since_write >>

\* the arguments of a readback and, for each slot, whether the backend maps
\* the downloaded buffer
Readback(clip, mapped) ==
    [ color_format |-> "a8r8g8b8", width |-> clip[1], height |-> clip[2],
      mapped |-> [i \in 0..(NumColorSlots - 1) |-> mapped[i + 1]] ]

\* readbacks of one or two bound color surfaces, the readbacks recorded
ReadbackInputs ==
    [ history |-> {"get_render_targets_data"},
      prepare |-> { PrepareArg(layout, Small, 0, 32) :
                        layout \in { << "none", << 0, 0, 0, 0 >> >>,
                                     << "surface_a", << 256, 0, 0, 0 >> >>,
                                     << "surfaces_a_b", << 256, 264, 0, 0 >> >> } },
      invalidate |-> {256},
      queries |-> { Query(256, Small, 32) },
      write |-> {0},
      words |-> {256},
      readbacks |-> { Readback(Small, mapped) :
                        mapped \in { << TRUE, TRUE, TRUE, TRUE >>,
                                     << FALSE, TRUE, TRUE, TRUE >>,
                                     << TRUE, FALSE, TRUE, TRUE >> } } ]

ReadbackNext ==
    \/ NextOver(ReadbackInputs)
    \/ \E a \in ReadbackInputs.readbacks : GetRenderTargetsData(ReadbackInputs.history, a)

ReadbackSpec == Init /\ [][ReadbackNext]_vars

(***************************************************************************)
(* Binds of a color surface at 256 and a depth surface at 264 that are     *)
(* bound again with the same or another pitch; the binds recorded.         *)
(***************************************************************************)
PitchInputs ==
    [ history |-> {"prepare_render_target"},
      prepare |-> { PrepareArg(<< "none", << 0, 0, 0, 0 >> >>, Small, 0, 32),
                    PrepareArg(<< "surface_a", << 256, 0, 0, 0 >> >>, Small, 264, 32),
                    PrepareArg(<< "surface_a", << 256, 0, 0, 0 >> >>, Small, 264, 64),
                    PrepareArg(<< "surface_a", << 256, 0, 0, 0 >> >>, Big, 0, 32) },
      invalidate |-> {256},
      queries |-> { Query(256, Small, 32) },
      write |-> {0},
      words |-> {256} ]

PitchNext == NextOver(PitchInputs)

PitchSpec == Init /\ [][PitchNext]_vars

(***************************************************************************)
(* The samples of one bound color surface over a range of widths, heights  *)
(* and pitches, armed at 8-byte-aligned bases.                             *)
(***************************************************************************)
AlignWidths == {2, 4, 5, 6, 8}
AlignHeights == {1, 2, 3}
AlignPitches == {32, 40}

AlignFrames ==
    { PrepareArg(<< "surface_a", << 256, 0, 0, 0 >> >>, << width, height >>, 0, pitch) :
        width \in AlignWidths, height \in AlignHeights, pitch \in AlignPitches }

AlignInputs ==
    [ history |-> {"queue_tag"},
      bases |-> {256, 264},
      write |-> {256},
      words |-> {256} ]

\* the bind that creates the surface, then the calls on it
AlignNext ==
    \/ /\ surfaces = << >>
       /\ \E a \in AlignFrames : PrepareRenderTarget(AlignInputs.history, a)
    \/ \E surface \in DOMAIN surfaces, address \in AlignInputs.bases :
          QueueTag(AlignInputs.history, surface, address)
    \/ \E address \in AlignInputs.write : OnWrite(AlignInputs.history, address)
    \/ \E address \in AlignInputs.words, value \in MemValues :
          GuestWrite(AlignInputs.history, address, value)

AlignSpec == Init /\ [][AlignNext]_vars

(***************************************************************************)
(* The old_contents references of up to three surfaces: a caller setting   *)
(* them with set_old_contents, draws clearing them.                        *)
(***************************************************************************)
\* a caller invokes surface->set_old_contents(other)
SetOldContents(h, surface, other) ==
    /\ surfaces' = [surfaces EXCEPT ![surface] = set_old_contents(@, other, surfaces)]
    /\ Observe(h, [op |-> "set_old_contents", args |-> << surface, other >>,
                log |-> << >>, result |-> << >>])
    /\ UNCHANGED << m_render_targets_storage, m_depth_stencil_storage,
                    m_render_targets_memory_range, m_depth_stencil_memory_range,
                    m_bound_render_targets, m_bound_depth_stencil,
                    invalidated_resources, m_memory_tree, cache_tag, write_tag,
                    memory_tag, g_sudo_mem, g_rsx_shared_tag, since_write >>

OldContentsInputs ==
    [ history |-> {"set_old_contents"},
      prepare |-> { PrepareArg(<< "surfaces_a_b", << 256, 264, 0, 0 >> >>, Small, 272, 32),
                    PrepareArg(<< "surface_a", << 256, 0, 0, 0 >> >>, Small, 0, 64) },
      write |-> {0, 264} ]

OldContentsNext ==
    \/ \E a \in OldContentsInputs.prepare : PrepareRenderTarget(OldContentsInputs.history, a)
    \/ \E surface \in DOMAIN surfaces :
          \E other \in (DOMAIN surfaces \cup {nullptr}) \ {surface} :
              SetOldContents(OldContentsInputs.history, surface, other)
    \/ \E address \in OldContentsInputs.write : OnWrite(OldContentsInputs.history, address)

OldContentsSpec == Init /\ [][OldContentsNext]_vars

(***************************************************************************)
(* Binds of color surfaces of two shapes at 256 and 264 and of depth       *)
(* surfaces of two shapes at 264, with invalidations that fill             *)
(* invalidated_resources; the binds recorded.                              *)
(***************************************************************************)
ReuseInputs ==
    [ history |-> {"prepare_render_target"},
      prepare |-> { PrepareArg(<< "none", << 0, 0, 0, 0 >> >>, Small, 0, 32),
                    PrepareArg(<< "surfaces_a_b", << 256, 264, 0, 0 >> >>, Small, 0, 32),
                    PrepareArg(<< "surface_a", << 256, 0, 0, 0 >> >>, Small, 0, 32),
                    PrepareArg(<< "surface_a", << 256, 0, 0, 0 >> >>, Big, 0, 32),
                    PrepareArg(<< "none", << 0, 0, 0, 0 >> >>, Small, 264, 32),
                    PrepareArg(<< "none", << 0, 0, 0, 0 >> >>, Big, 264, 32) },
      invalidate |-> {256, 264} ]

ReuseNext ==
    \/ \E a \in ReuseInputs.prepare : PrepareRenderTarget(ReuseInputs.history, a)
    \/ \E surface \in DOMAIN surfaces, depth \in BOOLEAN :
          InvalidateSingleSurface(ReuseInputs.history, surface, depth)
    \/ \E addr \in ReuseInputs.invalidate, depth \in BOOLEAN :
          InvalidateSurfaceAddress(ReuseInputs.history, addr, depth)

ReuseSpec == Init /\ [][ReuseNext]_vars

(***************************************************************************)
(* Properties of the registry                                              *)
(***************************************************************************)
\* C1: after any sequence of public calls no guest address is a key of both
\* the color map and the depth map.
C1_MapsDisjoint ==
    DOMAIN m_render_targets_storage \cap DOMAIN m_depth_stencil_storage = {}

\* a depth bind at the address color slot 0 was bound to in the same call has
\* evicted the color storage of that address
C1_DepthBindEvictedColor ==
    /\ m_bound_render_targets[0][1] = 256
    /\ m_bound_depth_stencil[1] = 256
    /\ 256 \in DOMAIN m_depth_stencil_storage
    /\ m_bound_render_targets[0][2] \in Range(invalidated_resources)

\* C2: every bound color slot (A, h) with A # 0 has color_map[A] present with
\* handle h, and the bound depth slot with A # 0 has depth_map[A] present with
\* the bound handle.
C2_BoundSlotsResolve ==
    /\ \A i \in 0..(NumColorSlots - 1) :
          m_bound_render_targets[i][1] # 0 =>
             /\ m_bound_render_targets[i][1] \in DOMAIN m_render_targets_storage
             /\ Traits_get(m_render_targets_storage[m_bound_render_targets[i][1]])
                   = m_bound_render_targets[i][2]
    /\ m_bound_depth_stencil[1] # 0 =>
          /\ m_bound_depth_stencil[1] \in DOMAIN m_depth_stencil_storage
          /\ Traits_get(m_depth_stencil_storage[m_bound_depth_stencil[1]])
                = m_bound_depth_stencil[2]

\* the number of places that hold the storage of surface h
Holders(h) ==
    Cardinality({address \in DOMAIN m_render_targets_storage :
                    m_render_targets_storage[address] = h})
    + Cardinality({address \in DOMAIN m_depth_stencil_storage :
                    m_depth_stencil_storage[address] = h})
    + Cardinality({i \in DOMAIN invalidated_resources : invalidated_resources[i] = h})

\* C3: each storage create_new_surface ever returned is held in exactly one
\* place: one color-map slot, one depth-map slot or one invalidated_resources
\* slot; and these places hold nothing else.
C3_StorageHeldOnce ==
    /\ \A h \in DOMAIN surfaces : Holders(h) = 1
    /\ \A address \in DOMAIN m_render_targets_storage :
          m_render_targets_storage[address] \in DOMAIN surfaces
    /\ \A address \in DOMAIN m_depth_stencil_storage :
          m_depth_stencil_storage[address] \in DOMAIN surfaces
    /\ \A i \in DOMAIN invalidated_resources : invalidated_resources[i] \in DOMAIN surfaces

\* three storages were created, and binds and invalidations have left one in
\* the color map, one in the depth map and one in invalidated_resources
C3_AllPlacesHold ==
    /\ Len(surfaces) = MaxSurfaces
    /\ DOMAIN m_render_targets_storage # {}
    /\ DOMAIN m_depth_stencil_storage # {}
    /\ invalidated_resources # << >>

\* C4: a prepare_render_target call repeated with the arguments of the call
\* just made leaves the same handle in every bound color slot and in the bound
\* depth slot, and invalidated_resources no longer than the first call left it.
C4_RepeatedPrepareKeepsBinding ==
    [][\A a \in AliasInputs.prepare :
          PrepareRenderTarget(AliasInputs.history, a) =>
             LET again == prepare_render_target(BindState', a)
             IN  /\ \A i \in 0..(NumColorSlots - 1) :
                       again.brt[i][2] = m_bound_render_targets'[i][2]
                 /\ again.bds[2] = m_bound_depth_stencil'[2]
                 /\ Len(again.s.pool) <= Len(invalidated_resources')]_vars

(***************************************************************************)
(* Properties of on_write                                                  *)
(***************************************************************************)
\* C5: an on_write() made after an on_write() with no call that sets
\* cache_tag in between changes nothing: write_tag, memory_tag, the memory
\* tree and every field of every surface are as before.
C5_SecondOnWriteIsNoOp ==
    [][(since_write \in {"clean", "repeated"} /\ OnWrite(WriteInputs.history, 0))
          => UNCHANGED << write_tag, memory_tag, m_memory_tree, surfaces >>]_vars

\* on_write() was repeated over bound surfaces and a generated memory tree
C5_OnWriteRepeated ==
    /\ since_write = "repeated"
    /\ last.op = "on_write" /\ last.args = << 0 >>
    /\ m_memory_tree # << >>
    /\ m_bound_render_targets[0][2] # nullptr

\* the surfaces the bound slots refer to
BoundSurfaces ==
    ({m_bound_render_targets[i][2] : i \in 0..(NumColorSlots - 1)}
        \cup {m_bound_depth_stencil[2]}) \ {nullptr}

\* C6: right after on_write() with address 0 returns, every surface a bound
\* slot refers to has dirty = false and old_contents = null.
C6_BoundCleanAfterOnWrite ==
    (last.op = "on_write" /\ last.args = << 0 >>) =>
        \A h \in BoundSurfaces :
            ~surfaces[h].dirty /\ surfaces[h].old_contents = nullptr

(***************************************************************************)
(* Properties of the pool and of the dirty prune                           *)
(***************************************************************************)
\* the color surface that was stored at 256 when the recorded
\* invalidate_surface_address(256, false) was made: the call logged it when
\* it moved it, and left it in the map when it refused
InvalidatedAt256 ==
    IF last.log # << >> THEN last.log[1][2]
    ELSE IF 256 \in DOMAIN m_render_targets_storage THEN m_render_targets_storage[256]
    ELSE nullptr

\* a prepare_render_target call that makes one bind, of color slot 0 at 256
\* with the shape of the surface d
BindsColorAt256Like(a, d) ==
    /\ a.target = "surface_a" /\ a.surface_addresses[0] = 256 /\ a.address_z = 0
    /\ a.color_format = d.format
    /\ a.clip_width = d.surface_width /\ a.clip_height = d.surface_height

\* C7 as stated: for a color surface stored at 256,
\* invalidate_surface_address(256, false) followed by a color bind at 256 of
\* the same format, width and height returns a surface taken out of
\* invalidated_resources, creates none, and leaves invalidated_resources as
\* long as it was before the invalidation.
C7_InvalidateThenBindReuses ==
    [][\A a \in PoolInputs.prepare :
          ( /\ last.op = "invalidate_surface_address" /\ last.args = << 256, FALSE >>
            /\ InvalidatedAt256 # nullptr
            /\ BindsColorAt256Like(a, surfaces[InvalidatedAt256])
            /\ PrepareRenderTarget(PoolInputs.history, a) )
          => /\ m_bound_render_targets'[0][2] \in Range(invalidated_resources)
             /\ Len(surfaces') = Len(surfaces)
             /\ Len(invalidated_resources') =
                   Len(invalidated_resources) - (IF last.log # << >> THEN 1 ELSE 0)]_vars

\* C7 amended: the same, for an address 256 that is not bound when it is
\* invalidated (the invalidation then moves the storage to the pool).
C7_UnboundInvalidateThenBindReuses ==
    [][\A a \in PoolInputs.prepare :
          ( /\ last.op = "invalidate_surface_address" /\ last.args = << 256, FALSE >>
            /\ last.log # << >>
            /\ BindsColorAt256Like(a, surfaces[InvalidatedAt256])
            /\ PrepareRenderTarget(PoolInputs.history, a) )
          => /\ m_bound_render_targets'[0][2] \in Range(invalidated_resources)
             /\ m_render_targets_storage'[256] = m_bound_render_targets'[0][2]
             /\ Len(surfaces') = Len(surfaces)
             /\ Len(invalidated_resources') = Len(invalidated_resources) - 1]_vars

\* the bind of color slot 0 at 256 took its surface from the pool: the call
\* logged invalidate_surface_contents for it, created nothing, and emptied
\* the pool an invalidation had filled
C7_BoundFromPool ==
    /\ last.op = "prepare_render_target"
    /\ last.after = "invalidate_surface_address"
    /\ m_bound_render_targets[0][1] = 256
    /\ \E k \in DOMAIN last.log :
          /\ last.log[k][1] = "invalidate_surface_contents"
          /\ last.log[k][2] = m_bound_render_targets[0][2]
    /\ \A k \in DOMAIN last.log : last.log[k][1] # "create_new_surface"
    /\ invalidated_resources = << >>
    /\ Len(surfaces) = 1

\* the color surface stored alone at 256 fails test() against guest memory
StaleAloneAt256 ==
    /\ DOMAIN m_render_targets_storage = {256}
    /\ DOMAIN m_depth_stencil_storage = {}
    /\ ~test(surfaces[m_render_targets_storage[256]], g_sudo_mem)

\* C8 as stated: with the color surface created and bound at 256 and its
\* sample-0 word changed, get_merged_texture_memory_region over its region
\* returns no overlap, removes the storage from the color map and appends it
\* to invalidated_resources.
C8_StaleBoundSurfacePruned ==
    [][\A q \in WriteInputs.queries :
          ( /\ StaleAloneAt256
            /\ m_bound_render_targets[0] = << 256, m_render_targets_storage[256] >>
            /\ GetMergedTextureMemoryRegion(WriteInputs.history, q) )
          => /\ last'.result.overlaps = << >>
             /\ 256 \notin DOMAIN m_render_targets_storage'
             /\ invalidated_resources' =
                   Append(invalidated_resources, m_render_targets_storage[256])]_vars

\* C8 amended: the query returns no overlap; while 256 is the address of a
\* bound slot the storage stays in the color map and invalidated_resources is
\* unchanged, and once 256 is not bound the storage is removed from the color
\* map and appended to invalidated_resources.
C8_StaleSurfacePrunedUnlessBound ==
    [][\A q \in WriteInputs.queries :
          (StaleAloneAt256 /\ GetMergedTextureMemoryRegion(WriteInputs.history, q))
          => /\ last'.result.overlaps = << >>
             /\ last'.result.dirty = << << 256, FALSE >> >>
             /\ IF address_is_bound(m_bound_render_targets, m_bound_depth_stencil, 256)
                THEN /\ m_render_targets_storage' = m_render_targets_storage
                     /\ invalidated_resources' = invalidated_resources
                ELSE /\ 256 \notin DOMAIN m_render_targets_storage'
                     /\ invalidated_resources' =
                           Append(invalidated_resources, m_render_targets_storage[256])]_vars

\* the query found the surface bound at 256 stale and left it in the color map
C8_StaleBoundSurfaceKept ==
    /\ last.op = "get_merged_texture_memory_region"
    /\ last.result.dirty = << << 256, FALSE >> >>
    /\ last.result.overlaps = << >>
    /\ 256 \in DOMAIN m_render_targets_storage
    /\ m_bound_render_targets[0] = << 256, m_render_targets_storage[256] >>
    /\ Len(surfaces) = 1

(***************************************************************************)
(* Properties of a bind over a storage of another shape or type            *)
(***************************************************************************)
\* C9: when prepare_render_target binds color slot 0 at an address whose
\* color storage does not match the requested format, width and height, then
\* after the call that storage is an element of invalidated_resources, the
\* color map holds at the address a different storage that matches the
\* request, and slot 0 refers to that storage.
C9_MismatchedStorageReplaced ==
    [][\A a \in ShapeInputs.prepare :
          LET address == a.surface_addresses[0]
          IN  ( /\ a.target = "surface_a" /\ address # 0
                /\ address \in DOMAIN m_render_targets_storage
                /\ ~rtt_has_format_width_height(surfaces[m_render_targets_storage[address]],
                        a.color_format, a.clip_width, a.clip_height, FALSE)
                /\ PrepareRenderTarget(ShapeInputs.history, a) )
              => /\ m_render_targets_storage[address] \in Range(invalidated_resources')
                 /\ address \in DOMAIN m_render_targets_storage'
                 /\ m_render_targets_storage'[address] # m_render_targets_storage[address]
                 /\ rtt_has_format_width_height(
                        surfaces'[m_render_targets_storage'[address]],
                        a.color_format, a.clip_width, a.clip_height, FALSE)
                 /\ m_bound_render_targets'[0] =
                        << address, Traits_get(m_render_targets_storage'[address]) >>]_vars

\* the store as the depth bind of prepare_render_target(a) finds it
BeforeDepthBind(a) ==
    bind_requested_rtts(release_bound_rtts(BindState, 0), get_rtt_indexes(a.target), 1, a).s

\* the create_new_surface calls in a log
Creations(log) == {k \in DOMAIN log : log[k][1] = "create_new_surface"}

\* C10: a depth bind at an address that holds a color storage and no depth
\* storage, with no pool entry matching the depth request, removes the color
\* storage from the color map and appends it to invalidated_resources,
\* installs a new depth storage at the address, and passes the evicted color
\* surface as the prior contents to create_new_surface; and the same with
\* color and depth exchanged.
C10_CrossTypeEviction ==
    [][\A a \in ShapeInputs.prepare :
          PrepareRenderTarget(ShapeInputs.history, a) =>
             /\ LET s == BeforeDepthBind(a)
                    address == a.address_z
                IN  ( /\ address # 0
                      /\ address \in DOMAIN s.rtts
                      /\ address \notin DOMAIN s.dss
                      /\ find_invalidated_ds(evict_aliased_rtt_surface(s, address),
                            a.depth_format, a.clip_width, a.clip_height) = 0 )
                    => /\ address \notin DOMAIN m_render_targets_storage'
                       /\ invalidated_resources' = Append(s.pool, s.rtts[address])
                       /\ address \in DOMAIN m_depth_stencil_storage'
                       /\ m_depth_stencil_storage'[address] = Len(surfaces')
                       /\ Len(surfaces') = Len(s.surf) + 1
                       /\ \E k \in Creations(last'.log) :
                             last'.log[k] = << "create_new_surface", address, a.depth_format,
                                               a.clip_width, a.clip_height, a.zeta_pitch,
                                               Traits_get(s.rtts[address]) >>
             /\ LET address == a.surface_addresses[0]
                IN  ( /\ a.target = "surface_a" /\ a.address_z = 0 /\ address # 0
                      /\ address \in DOMAIN m_depth_stencil_storage
                      /\ address \notin DOMAIN m_render_targets_storage
                      /\ find_invalidated_rtt(evict_aliased_depth_surface(Store, address),
                            a.color_format, a.clip_width, a.clip_height) = 0 )
                    => /\ address \notin DOMAIN m_depth_stencil_storage'
                       /\ invalidated_resources' =
                             Append(invalidated_resources, m_depth_stencil_storage[address])
                       /\ address \in DOMAIN m_render_targets_storage'
                       /\ m_render_targets_storage'[address] = Len(surfaces')
                       /\ Len(surfaces') = Len(surfaces) + 1
                       /\ \E k \in Creations(last'.log) :
                             last'.log[k] = << "create_new_surface", address, a.color_format,
                                               a.clip_width, a.clip_height, a.surface_pitch[0],
                                               Traits_get(m_depth_stencil_storage[address]) >>]_vars

\* a depth storage was created at 256 over a color storage, which is now the
\* last element of invalidated_resources and was passed as the prior contents
C10_DepthCreatedOverColor ==
    /\ last.op = "prepare_render_target"
    /\ 256 \in DOMAIN m_depth_stencil_storage
    /\ invalidated_resources # << >>
    /\ ~is_depth_surface(surfaces[invalidated_resources[Len(invalidated_resources)]])
    /\ \E k \in Creations(last.log) :
          /\ last.log[k][2] = 256
          /\ last.log[k][3] = "z24s8"
          /\ last.log[k][7] = invalidated_resources[Len(invalidated_resources)]

(***************************************************************************)
(* Properties of the overlap query                                         *)
(***************************************************************************)
\* the area the comparison of the sort computes for a record
Area(r) == r.width * r.height

\* C11: in every result of get_merged_texture_memory_region, for every pair
\* of records a, b with a before b, a.surface.last_use_tag is less than
\* b.surface.last_use_tag, or the tags are equal and a.width * a.height is at
\* most b.width * b.height.
C11_ResultSortedByTagThenArea ==
    last.op = "get_merged_texture_memory_region" =>
        \A i, j \in DOMAIN last.result.overlaps :
            i < j =>
                LET a == last.result.overlaps[i]
                    b == last.result.overlaps[j]
                IN  \/ surfaces[a.surface].last_use_tag < surfaces[b.surface].last_use_tag
                    \/ /\ surfaces[a.surface].last_use_tag = surfaces[b.surface].last_use_tag
                       /\ Area(a) <= Area(b)

\* a query returned two records whose surfaces differ in last_use_tag, the
\* record of the larger area first
C11_OlderLargerRecordFirst ==
    /\ last.op = "get_merged_texture_memory_region"
    /\ Len(last.result.overlaps) = 2
    /\ surfaces[last.result.overlaps[1].surface].last_use_tag
          < surfaces[last.result.overlaps[2].surface].last_use_tag
    /\ Area(last.result.overlaps[1]) > Area(last.result.overlaps[2])

\* a query returned two records whose surfaces have the same last_use_tag and
\* whose areas differ
C11_EqualTagsOrderedByArea ==
    /\ last.op = "get_merged_texture_memory_region"
    /\ Len(last.result.overlaps) = 2
    /\ surfaces[last.result.overlaps[1].surface].last_use_tag
          = surfaces[last.result.overlaps[2].surface].last_use_tag
    /\ Area(last.result.overlaps[1]) < Area(last.result.overlaps[2])

\* the surfaces stored at the address in either map
StoredAt(address) ==
    (IF address \in DOMAIN m_render_targets_storage
     THEN {Traits_get(m_render_targets_storage[address])} ELSE {})
    \cup (IF address \in DOMAIN m_depth_stencil_storage
          THEN {Traits_get(m_depth_stencil_storage[address])} ELSE {})

\* the factors the query derives from read_aa_mode
ScaleX(d) == IF d.read_aa_mode = "center_1_sample" THEN 1 ELSE 2
ScaleY(d) == IF d.read_aa_mode \in {"center_1_sample", "diagonal_centered_2_samples"} THEN 1 ELSE 2

\* C12 as stated: for every stored surface S at base address A that passes
\* the pitch filter and test(), get_merged_texture_memory_region with
\* texaddr = A emits a record for S with is_clipped false, src_x = src_y =
\* dst_x = dst_y = 0, width = S.surface_width and height = S.surface_height,
\* whatever the required width, height and pitch.
C12_SameBaseRecordIsFullSurface ==
    [][\A q \in QueryInputs.queries :
          GetMergedTextureMemoryRegion(QueryInputs.history, q) =>
              \A S \in StoredAt(q.texaddr) :
                  ( /\ pitch_compatible(surfaces[S], q.required_pitch, q.required_height)
                    /\ test(surfaces[S], g_sudo_mem) )
                  => \E k \in DOMAIN last'.result.overlaps :
                        LET r == last'.result.overlaps[k]
                        IN  /\ r.surface = S
                            /\ r.is_clipped = FALSE
                            /\ r.src_x = 0 /\ r.src_y = 0 /\ r.dst_x = 0 /\ r.dst_y = 0
                            /\ r.width = surfaces[S].surface_width
                            /\ r.height = surfaces[S].surface_height]_vars

\* C12 amended: the record emitted for S has src_x = src_y = dst_x = dst_y =
\* 0, width = min(surface_width * scale_x, required_width) / scale_x, height
\* = min(surface_height * scale_y, required_height) / scale_y, and is_clipped
\* is true exactly when surface_width * scale_x < required_width or
\* surface_height * scale_y < required_height; so the record is whole and
\* unclipped exactly when the required size is the size of S in samples.
C12_SameBaseRecordIsCutToRequiredSize ==
    [][\A q \in QueryInputs.queries :
          GetMergedTextureMemoryRegion(QueryInputs.history, q) =>
              \A S \in StoredAt(q.texaddr) :
                  ( /\ pitch_compatible(surfaces[S], q.required_pitch, q.required_height)
                    /\ test(surfaces[S], g_sudo_mem) )
                  => \E k \in DOMAIN last'.result.overlaps :
                        LET r == last'.result.overlaps[k]
                            d == surfaces[S]
                            int_SW == d.surface_width * ScaleX(d)
                            int_SH == d.surface_height * ScaleY(d)
                        IN  /\ r.surface = S
                            /\ r.base_address = q.texaddr
                            /\ r.src_x = 0 /\ r.src_y = 0 /\ r.dst_x = 0 /\ r.dst_y = 0
                            /\ r.width = Min(int_SW, q.required_width) \div ScaleX(d)
                            /\ r.height = Min(int_SH, q.required_height) \div ScaleY(d)
                            /\ r.is_clipped = ( \/ int_SW < q.required_width
                                                \/ int_SH < q.required_height )
                            /\ ( /\ ~r.is_clipped
                                 /\ r.width = d.surface_width
                                 /\ r.height = d.surface_height )
                               <=> ( /\ q.required_width = int_SW
                                     /\ q.required_height = int_SH )]_vars

\* a query at the base address of a stored surface returned a record for it
\* that is clipped, and the surface is read with antialiasing
C12_SameBaseRecordClipped ==
    /\ last.op = "get_merged_texture_memory_region"
    /\ \E k \in DOMAIN last.result.overlaps :
          LET r == last.result.overlaps[k]
          IN  /\ r.base_address = last.args.texaddr
              /\ r.surface \in StoredAt(last.args.texaddr)
              /\ r.is_clipped
              /\ surfaces[r.surface].read_aa_mode = "square_centered_4_samples"

(***************************************************************************)
(* Properties of the memory tag samples                                    *)
(***************************************************************************)
\* C13 as stated: queue_tag(base) reads no guest memory and sets the value
\* field of every entry of memory_tag_samples to zero, so that no value from
\* an earlier sync_tag survives it.
C13_QueueTagClearsValues ==
    [][\A surface \in DOMAIN surfaces, address \in TagInputs.bases :
          QueueTag(TagInputs.history, surface, address) =>
              \A i \in 0..(NumTagSamples - 1) :
                  surfaces'[surface].memory_tag_samples[i].second = 0]_vars

\* C13 amended: queue_tag(base) reads no guest memory and writes only the
\* address fields of memory_tag_samples: every value field, and every other
\* field of the surface, is what it was before the call.
C13_QueueTagKeepsValues ==
    [][\A surface \in DOMAIN surfaces, address \in TagInputs.bases :
          QueueTag(TagInputs.history, surface, address) =>
              /\ \A i \in 0..(NumTagSamples - 1) :
                    surfaces'[surface].memory_tag_samples[i].second
                        = surfaces[surface].memory_tag_samples[i].second
              /\ [surfaces'[surface] EXCEPT !.memory_tag_samples = << >>]
                    = [surfaces[surface] EXCEPT !.memory_tag_samples = << >>]
              /\ g_sudo_mem' = g_sudo_mem]_vars

\* queue_tag moved sample 0 of a surface to another address and the value
\* sync_tag had read at the old address is still in the sample
C13_SyncedValueSurvived ==
    /\ last.op = "queue_tag"
    /\ surfaces[last.args[1]].memory_tag_samples[0].first = last.args[2]
    /\ surfaces[last.args[1]].memory_tag_samples[0].second = 1
    /\ g_sudo_mem[last.args[2]] = 0

\* the addresses of the samples of a surface, sample 0 first
SampleAddresses(d) == [i \in 0..(NumTagSamples - 1) |-> d.memory_tag_samples[i].first]

\* C20: queue_tag(base) arms exactly the X-pattern: sample 0 at base always;
\* with native_pitch < 16 only sample 0; with native_pitch >= 16 and height
\* <= 1 exactly samples 0 and 1, sample 1 at base + native_pitch - 8;
\* otherwise all five, sample 2 at base + (height - 1) * rsx_pitch, sample 3
\* at sample 2 + native_pitch - 8, sample 4 at base + (height / 2) *
\* rsx_pitch + native_pitch / 2.
C20_QueueTagArmsXPattern ==
    [][\A surface \in DOMAIN surfaces, base \in TagInputs.bases :
          QueueTag(TagInputs.history, surface, base) =>
              LET d == surfaces[surface]
                  native_pitch == get_native_pitch(d)
                  height == get_surface_height(d)
                  rsx_pitch == get_rsx_pitch(d)
                  armed == SampleAddresses(surfaces'[surface])
                  bottom_left == base + (height - 1) * rsx_pitch
              IN  IF native_pitch < 16
                  THEN armed = (0 :> base @@ 1 :> 0 @@ 2 :> 0 @@ 3 :> 0 @@ 4 :> 0)
                  ELSE IF height <= 1
                  THEN armed = (0 :> base @@ 1 :> (base + native_pitch - 8)
                                @@ 2 :> 0 @@ 3 :> 0 @@ 4 :> 0)
                  ELSE armed = (0 :> base @@ 1 :> (base + native_pitch - 8)
                                @@ 2 :> bottom_left
                                @@ 3 :> (bottom_left + native_pitch - 8)
                                @@ 4 :> (base + (height \div 2) * rsx_pitch
                                             + native_pitch \div 2))]_vars

\* queue_tag armed exactly samples 0 and 1 of a surface of one row
C20_OneRowArmsTwoSamples ==
    /\ last.op = "queue_tag"
    /\ get_surface_height(surfaces[last.args[1]]) = 1
    /\ get_native_pitch(surfaces[last.args[1]]) >= 16
    /\ {i \in 0..(NumTagSamples - 1) : SampleAddresses(surfaces[last.args[1]])[i] # 0} = {0, 1}

\* queue_tag armed only sample 0 of a surface of many rows narrower than 16
\* bytes
C20_NarrowArmsOneSample ==
    /\ last.op = "queue_tag"
    /\ get_surface_height(surfaces[last.args[1]]) > 1
    /\ get_native_pitch(surfaces[last.args[1]]) < 16
    /\ {i \in 0..(NumTagSamples - 1) : SampleAddresses(surfaces[last.args[1]])[i] # 0} = {0}

\* queue_tag armed all five samples of a surface
C20_ManyRowsArmFiveSamples ==
    /\ last.op = "queue_tag"
    /\ SampleAddresses(surfaces[last.args[1]])
          = (0 :> 264 @@ 1 :> 288 @@ 2 :> 360 @@ 3 :> 384 @@ 4 :> 344)

(***************************************************************************)
(* Properties of the coordinate projection                                 *)
(***************************************************************************)
\* the projection of a candidate at address A onto the texture of the query,
\* computed over the integers
IntegerProjection(d, A, q) ==
    LET info == get_surface_info(d)
    IN  IF A < q.texaddr
        THEN LET int_RW == q.required_width \div ScaleX(d)
                 int_RH == q.required_height \div ScaleY(d)
                 offset == q.texaddr - A
                 src_y == (offset \div q.required_pitch) \div ScaleY(d)
                 src_x == ((offset % q.required_pitch) \div info.bpp) \div ScaleX(d)
                 width == Min(int_RW, info.surface_width - src_x)
                 height == Min(int_RH, info.surface_height - src_y)
             IN  [ src_x |-> src_x, src_y |-> src_y, dst_x |-> 0, dst_y |-> 0,
                   width |-> width, height |-> height,
                   is_clipped |-> (width < int_RW \/ height < int_RH) ]
        ELSE LET int_SW == info.surface_width * ScaleX(d)
                 int_SH == info.surface_height * ScaleY(d)
                 offset == A - q.texaddr
                 dst_y == offset \div q.required_pitch
                 dst_x == (offset % q.required_pitch) \div info.bpp
                 width == Min(int_SW, q.required_width - dst_x)
                 height == Min(int_SH, q.required_height - dst_y)
             IN  [ src_x |-> 0, src_y |-> 0, dst_x |-> dst_x, dst_y |-> dst_y,
                   width |-> width \div ScaleX(d), height |-> height \div ScaleY(d),
                   is_clipped |-> (width < q.required_width \/ height < q.required_height) ]

\* the coordinates of a record of the result
Projected(r) ==
    [ src_x |-> r.src_x, src_y |-> r.src_y, dst_x |-> r.dst_x, dst_y |-> r.dst_y,
      width |-> r.width, height |-> r.height, is_clipped |-> r.is_clipped ]

\* C14: for every candidate that passes the range, pitch and staleness
\* filters, the record get_merged_texture_memory_region emits has src_x,
\* src_y, dst_x, dst_y, width, height and is_clipped equal to the values of
\* the projection computed over the integers.
C14_RecordIsIntegerProjection ==
    last.op = "get_merged_texture_memory_region" =>
        \A k \in DOMAIN last.result.overlaps :
            LET r == last.result.overlaps[k]
            IN  Projected(r) = IntegerProjection(surfaces[r.surface], r.base_address, last.args)

\* the 64x64 surface at 0x01000400 queried from 0x01000000 for 128x64 at
\* pitch 256 gave dst_y = 4, dst_x = 0, src = (0, 0), 64x60, clipped
C14_FourRowsBelowTextureBase ==
    /\ last.op = "get_merged_texture_memory_region"
    /\ last.args = Query(16777216, << 128, 64 >>, 256)
    /\ Len(last.result.overlaps) = 1
    /\ last.result.overlaps[1].base_address = 16778240
    /\ Projected(last.result.overlaps[1])
          = [ src_x |-> 0, src_y |-> 0, dst_x |-> 0, dst_y |-> 4,
              width |-> 64, height |-> 60, is_clipped |-> TRUE ]

\* C29: every record emitted by get_merged_texture_memory_region describes
\* a source rectangle inside its surface and a destination rectangle inside
\* the requested region: src_x + width <= surface_width, src_y + height <=
\* surface_height, dst_x + width * scale_x <= required_width and dst_y +
\* height * scale_y <= required_height.
C29_RecordRectanglesInside ==
    last.op = "get_merged_texture_memory_region" =>
        \A k \in DOMAIN last.result.overlaps :
            LET r == last.result.overlaps[k]
                d == surfaces[r.surface]
            IN  /\ r.src_x + r.width <= get_surface_width(d)
                /\ r.src_y + r.height <= get_surface_height(d)
                /\ r.dst_x + r.width * ScaleX(d) <= last.args.required_width
                /\ r.dst_y + r.height * ScaleY(d) <= last.args.required_height

\* a record was cut on both sides: its source rectangle starts inside the
\* surface and both rectangles are inside
C29_RecordCutInside ==
    /\ last.op = "get_merged_texture_memory_region"
    /\ \E k \in DOMAIN last.result.overlaps :
          LET r == last.result.overlaps[k]
              d == surfaces[r.surface]
          IN  /\ r.src_x + r.src_y > 0
              /\ r.is_clipped
              /\ r.src_x + r.width <= get_surface_width(d)
              /\ r.src_y + r.height <= get_surface_height(d)
              /\ r.width * ScaleX(d) <= last.args.required_width
              /\ r.height * ScaleY(d) <= last.args.required_height

(***************************************************************************)
(* Properties of the memory tree                                           *)
(***************************************************************************)
\* C15: every record (S, A, x, y, w, h) of a memory_tree block for a bound
\* surface at MA with pitch rsx_pitch and footprint [MA, MA + rsx_pitch *
\* height) has A > MA, A < MA + rsx_pitch * height, ((A - MA) mod rsx_pitch)
\* + w * bpp(S) <= rsx_pitch and (y + h) * rsx_pitch <= rsx_pitch * height;
\* in particular the bound surface is not a record of its own block.
C15_TreeRecordsInsideBlock ==
    \A i \in DOMAIN m_memory_tree :
        LET block == m_memory_tree[i]
            MA == block.memory_address
            bound == surfaces[block.memory_contents]
            rsx_pitch == get_rsx_pitch(bound)
            height == get_surface_height(bound)
        IN  \A j \in DOMAIN block.overlapping_set :
                LET r == block.overlapping_set[j]
                    A == r.memory_address
                IN  /\ A > MA
                    /\ A < MA + rsx_pitch * height
                    /\ ((A - MA) % rsx_pitch) + r.w * bpp(surfaces[r._ref].format) <= rsx_pitch
                    /\ (r.y + r.h) * rsx_pitch <= rsx_pitch * height
                    /\ r._ref # block.memory_contents

\* the tree has a block for the surface bound at 256 that records the
\* surface stored at 264, of another shape than the bound one
C15_NeighbourRecorded ==
    \E i \in DOMAIN m_memory_tree :
        /\ m_memory_tree[i].memory_address = 256
        /\ m_bound_render_targets[0] = << 256, m_memory_tree[i].memory_contents >>
        /\ \E j \in DOMAIN m_memory_tree[i].overlapping_set :
              LET r == m_memory_tree[i].overlapping_set[j]
              IN  /\ r.memory_address = 264
                  /\ 264 \in DOMAIN m_render_targets_storage
                  /\ r._ref = m_render_targets_storage[264]
                  /\ surfaces[r._ref].surface_width
                        # surfaces[m_memory_tree[i].memory_contents].surface_width

\* the pairs of address and surface stored in the two maps
StoredSurfaces ==
    { << A, Traits_get(m_render_targets_storage[A]) >> : A \in DOMAIN m_render_targets_storage }
    \cup { << A, Traits_get(m_depth_stencil_storage[A]) >> : A \in DOMAIN m_depth_stencil_storage }

\* the pairs of address and surface of the bound slots in use
BoundSlots ==
    { m_bound_render_targets[i] : i \in {k \in 0..(NumColorSlots - 1) :
                                            m_bound_render_targets[k][1] # 0} }
    \cup (IF m_bound_depth_stencil[1] # 0 THEN {m_bound_depth_stencil} ELSE {})

\* the surface S at A starts strictly inside the footprint of the surface B
\* bound at MA and fits it in width and height
FitsInside(A, S, MA, B) ==
    LET info == get_surface_info(surfaces[B])
        info2 == get_surface_info(surfaces[S])
        offset == A - MA
    IN  /\ A > MA
        /\ A < MA + info.rsx_pitch * info.surface_height
        /\ (offset % info.rsx_pitch) + info2.bpp * info2.surface_width <= info.rsx_pitch
        /\ ((offset \div info.rsx_pitch) + info2.surface_height) * info.rsx_pitch
              <= info.rsx_pitch * info.surface_height

\* C16: after prepare_render_target followed by on_write(), every stored
\* surface that is not bound, whose base address lies strictly inside the
\* footprint of a bound surface and that fits it in width and height, has
\* dirty = true, while every bound surface has dirty = false and sample
\* values equal to the guest-memory words at its armed sample addresses.
C16_OnWriteDirtiesContainedSurfaces ==
    ( /\ last.op = "on_write"
      /\ last.args = << 0 >>
      /\ last.after = "prepare_render_target" )
    => /\ \A stored \in StoredSurfaces, slot \in BoundSlots :
             ( /\ stored[2] \notin BoundSurfaces
               /\ FitsInside(stored[1], stored[2], slot[1], slot[2]) )
             => surfaces[stored[2]].dirty
       /\ \A B \in BoundSurfaces :
             /\ ~surfaces[B].dirty
             /\ \A i \in 0..(NumTagSamples - 1) :
                   surfaces[B].memory_tag_samples[i].first # 0
                   => surfaces[B].memory_tag_samples[i].second
                        = read_u64(g_sudo_mem, surfaces[B].memory_tag_samples[i].first)

\* on_write() right after prepare_render_target left the unbound surface
\* stored at 264 dirty and the surface bound at 256 clean, its sample 0
\* holding the word 1 the guest wrote at 256
C16_ContainedSurfaceDirtied ==
    /\ last.op = "on_write"
    /\ last.args = << 0 >>
    /\ last.after = "prepare_render_target"
    /\ \E stored \in StoredSurfaces, slot \in BoundSlots :
          /\ stored[2] \notin BoundSurfaces
          /\ FitsInside(stored[1], stored[2], slot[1], slot[2])
          /\ surfaces[stored[2]].dirty
          /\ ~surfaces[slot[2]].dirty
          /\ surfaces[slot[2]].memory_tag_samples[0] = [first |-> 256, second |-> 1]

(***************************************************************************)
(* Properties of the calls that are refused or fail                        *)
(***************************************************************************)
\* C17: invalidate_surface_address(addr, depth) called with addr equal to the
\* address of a bound color slot or of the bound depth slot changes nothing:
\* both maps, invalidated_resources, the bound slots and cache_tag are as
\* before.
C17_BoundAddressIsNotInvalidated ==
    [][\A addr \in PoolInputs.invalidate, depth \in BOOLEAN :
          ( /\ addr # 0
            /\ \/ \E i \in 0..(NumColorSlots - 1) : m_bound_render_targets[i][1] = addr
               \/ m_bound_depth_stencil[1] = addr
            /\ InvalidateSurfaceAddress(PoolInputs.history, addr, depth) )
          => UNCHANGED << m_render_targets_storage, m_depth_stencil_storage,
                          invalidated_resources, m_bound_render_targets,
                          m_bound_depth_stencil, cache_tag >>]_vars

\* invalidate_surface_address was called for the color storage at the
\* address of bound color slot 0, and the storage is still in the color map
C17_BoundStorageStillStored ==
    /\ last.op = "invalidate_surface_address"
    /\ last.args[2] = FALSE
    /\ last.args[1] \in DOMAIN m_render_targets_storage
    /\ m_bound_render_targets[0] = << last.args[1], m_render_targets_storage[last.args[1]] >>
    /\ last.log = << >>

\* C18: get_surface_at(address) returns the handle of the storage held at
\* the address in the color map or, failing that, in the depth map; when
\* neither map has the address it ends in the fatal error and returns no
\* handle; the store is left as it was.
C18_LookupReturnsStoredHandleOrFails ==
    [][\A address \in LookupInputs.lookups :
          GetSurfaceAt(LookupInputs.history, address) =>
              /\ IF address \in DOMAIN m_render_targets_storage
                 THEN last'.result = [ outcome |-> "returned",
                                       surface |-> Traits_get(m_render_targets_storage[address]) ]
                 ELSE IF address \in DOMAIN m_depth_stencil_storage
                 THEN last'.result = [ outcome |-> "returned",
                                       surface |-> Traits_get(m_depth_stencil_storage[address]) ]
                 ELSE last'.result = [ outcome |-> "exception", surface |-> nullptr ]
              /\ UNCHANGED << m_render_targets_storage, m_depth_stencil_storage,
                              m_render_targets_memory_range, m_depth_stencil_memory_range,
                              m_bound_render_targets, m_bound_depth_stencil,
                              invalidated_resources, m_memory_tree, cache_tag, write_tag,
                              memory_tag, surfaces >>]_vars

\* a lookup of an address neither map holds ended in the exception while
\* both maps held a storage
C18_LookupMissed ==
    /\ last.op = "get_surface_at"
    /\ last.result.outcome = "exception"
    /\ last.args[1] \notin DOMAIN m_render_targets_storage \cup DOMAIN m_depth_stencil_storage
    /\ m_render_targets_storage # EmptyMap
    /\ m_depth_stencil_storage # EmptyMap

\* a lookup returned the handle of the depth storage at an address the color
\* map does not hold
C18_LookupFoundDepth ==
    /\ last.op = "get_surface_at"
    /\ last.args[1] \notin DOMAIN m_render_targets_storage
    /\ last.args[1] \in DOMAIN m_depth_stencil_storage
    /\ last.result = [ outcome |-> "returned",
                       surface |-> Traits_get(m_depth_stencil_storage[last.args[1]]) ]

\* C19: when the backend's map of a downloaded color buffer fails, yielding
\* an empty span, get_render_targets_data returns an empty output vector for
\* that bound slot, not a vector of dst_pitch * height bytes and not a fault.
C19_FailedMapYieldsEmptyVector ==
    [][\A a \in ReadbackInputs.readbacks :
          GetRenderTargetsData(ReadbackInputs.history, a) =>
              \A i \in 0..(NumColorSlots - 1) :
                  (m_bound_render_targets[i][1] # 0 /\ ~a.mapped[i])
                  => /\ last'.result.outcome = "returned"
                     /\ last'.result.sizes[i] = 0]_vars

\* a readback whose maps all succeeded returned dst_pitch * height bytes for
\* the bound slot 0
C19_MappedReadbackReturned ==
    /\ last.op = "get_render_targets_data"
    /\ m_bound_render_targets[0][1] # 0
    /\ \A i \in 0..(NumColorSlots - 1) : last.args.mapped[i]
    /\ last.result = [ outcome |-> "returned",
                       sizes |-> [i \in 0..(NumColorSlots - 1) |->
                                    IF m_bound_render_targets[i][1] # 0 THEN 16 ELSE 0] ]

(***************************************************************************)
(* Properties of the memory-tag samples                                    *)
(***************************************************************************)
\* C21: for every surface held in the color or depth map the armed samples
\* form a prefix of memory_tag_samples: if sample k has address 0 then every
\* sample j > k has address 0.
C21_ArmedSamplesFormPrefix ==
    \A pair \in StoredSurfaces :
        \A k, j \in 0..(NumTagSamples - 1) :
            (k < j /\ surfaces[pair[2]].memory_tag_samples[k].first = 0)
                => surfaces[pair[2]].memory_tag_samples[j].first = 0

\* a stored surface has its first two samples armed and the other three not
C21_TwoSamplesArmed ==
    \E pair \in StoredSurfaces :
        {i \in 0..(NumTagSamples - 1) : surfaces[pair[2]].memory_tag_samples[i].first # 0}
            = {0, 1}

\* a stored surface has all five samples armed
C21_FiveSamplesArmed ==
    \E pair \in StoredSurfaces :
        \A i \in 0..(NumTagSamples - 1) : surfaces[pair[2]].memory_tag_samples[i].first # 0

\* C26: for every 8-byte-aligned base address and every native_pitch,
\* rsx_pitch and height in the bounded ranges, every sample address armed by
\* queue_tag(base) is 8-byte-aligned.
C26_ArmedSamplesAligned ==
    [][\A surface \in DOMAIN surfaces, base \in AlignInputs.bases :
          (QueueTag(AlignInputs.history, surface, base) /\ base % 8 = 0) =>
              \A i \in 0..(NumTagSamples - 1) :
                  SampleAddresses(surfaces'[surface])[i] % 8 = 0]_vars

\* queue_tag armed five samples, all of them 8-byte-aligned
C26_FiveAlignedSamplesArmed ==
    /\ last.op = "queue_tag"
    /\ \A i \in 0..(NumTagSamples - 1) :
          /\ SampleAddresses(surfaces[last.args[1]])[i] # 0
          /\ SampleAddresses(surfaces[last.args[1]])[i] % 8 = 0

(***************************************************************************)
(* Properties of the order of the backend calls of a bind                  *)
(***************************************************************************)
\* the position of the first call of the backend function name on the
\* surface in the log, 0 when there is none
FirstCall(log, name, surface) ==
    LET calls == {k \in DOMAIN log : log[k][1] = name /\ log[k][2] = surface}
    IN  IF calls = {} THEN 0 ELSE CHOOSE k \in calls : \A x \in calls : k <= x

\* C22: on the invalidated-pool reuse branch of a color bind,
\* prepare_rtt_for_drawing on the reused surface occurs before
\* invalidate_surface_contents on it; on the reuse branch of a depth bind
\* invalidate_surface_contents occurs before prepare_ds_for_drawing.
C22_ColorPreparesFirstDepthInvalidatesFirst ==
    [][last'.op = "prepare_render_target" =>
          \A surface \in Range(invalidated_resources) :
              LET invalidated == FirstCall(last'.log, "invalidate_surface_contents", surface)
                  prepared_rtt == FirstCall(last'.log, "prepare_rtt_for_drawing", surface)
                  prepared_ds == FirstCall(last'.log, "prepare_ds_for_drawing", surface)
              IN  invalidated # 0 =>
                      IF is_depth_surface(surfaces[surface])
                      THEN prepared_ds # 0 /\ invalidated < prepared_ds
                      ELSE prepared_rtt # 0 /\ prepared_rtt < invalidated]_vars

\* C22 as the code has it: on the reuse branch of a color bind
\* invalidate_surface_contents on the reused surface occurs before
\* prepare_rtt_for_drawing on it; on the reuse branch of a depth bind
\* prepare_ds_for_drawing occurs before invalidate_surface_contents.
C22_ColorInvalidatesFirstDepthPreparesFirst ==
    [][last'.op = "prepare_render_target" =>
          \A surface \in Range(invalidated_resources) :
              LET invalidated == FirstCall(last'.log, "invalidate_surface_contents", surface)
                  prepared_rtt == FirstCall(last'.log, "prepare_rtt_for_drawing", surface)
                  prepared_ds == FirstCall(last'.log, "prepare_ds_for_drawing", surface)
              IN  invalidated # 0 =>
                      IF is_depth_surface(surfaces[surface])
                      THEN prepared_ds # 0 /\ prepared_ds < invalidated
                      ELSE prepared_rtt # 0 /\ invalidated < prepared_rtt]_vars

\* a depth bind took its surface from invalidated_resources: the call
\* created no surface, and prepared for drawing and invalidated the surface
\* now bound as depth
C22_DepthSurfaceReused ==
    /\ last.op = "prepare_render_target"
    /\ Creations(last.log) = {}
    /\ m_bound_depth_stencil[2] # nullptr
    /\ FirstCall(last.log, "prepare_ds_for_drawing", m_bound_depth_stencil[2]) # 0
    /\ FirstCall(last.log, "invalidate_surface_contents", m_bound_depth_stencil[2]) # 0

\* a color bind took its surface from invalidated_resources
C22_ColorSurfaceReused ==
    /\ last.op = "prepare_render_target"
    /\ Creations(last.log) = {}
    /\ m_bound_render_targets[0][2] # nullptr
    /\ FirstCall(last.log, "prepare_rtt_for_drawing", m_bound_render_targets[0][2]) # 0
    /\ FirstCall(last.log, "invalidate_surface_contents", m_bound_render_targets[0][2]) # 0

\* the bind of prepare_render_target(a) to color slot 0 finds a color storage
\* of the requested format, width and height at its address
ColorBindMatches(a) ==
    /\ a.target = "surface_a"
    /\ a.surface_addresses[0] # 0
    /\ a.surface_addresses[0] \in DOMAIN m_render_targets_storage
    /\ rtt_has_format_width_height(
          surfaces[m_render_targets_storage[a.surface_addresses[0]]],
          a.color_format, a.clip_width, a.clip_height, FALSE)

\* the depth bind of prepare_render_target(a) finds a depth storage of the
\* requested format, width and height at its address
DepthBindMatches(a) ==
    /\ a.address_z # 0
    /\ a.address_z # a.surface_addresses[0]
    /\ a.address_z \in DOMAIN m_depth_stencil_storage
    /\ ds_has_format_width_height(
          surfaces[m_depth_stencil_storage[a.address_z]],
          a.depth_format, a.clip_width, a.clip_height, FALSE)

\* the position in the log of the call that persists the surface (pitch
\* compatible) or invalidates its contents in place (pitch incompatible)
KeptCall(log, surface, pitch) ==
    IF surface_is_pitch_compatible(surfaces[surface], pitch)
    THEN FirstCall(log, "notify_surface_persist", surface)
    ELSE FirstCall(log, "invalidate_surface_contents", surface)

\* C23: when a bind finds an own-type storage at the address whose format,
\* width and height match, prepare_for_drawing is issued on it before the
\* notify_surface_persist call (pitch-compatible case) or the in-place
\* invalidate_surface_contents call (pitch-incompatible case), and the
\* existing handle is returned without touching invalidated_resources.
C23_MatchingBindPreparesFirst ==
    [][\A a \in PitchInputs.prepare :
          (PrepareRenderTarget(PitchInputs.history, a) /\ last'.op = "prepare_render_target") =>
              /\ ColorBindMatches(a) =>
                    LET rtt == m_render_targets_storage[a.surface_addresses[0]]
                        kept == KeptCall(last'.log, rtt, a.surface_pitch[0])
                        prepared == FirstCall(last'.log, "prepare_rtt_for_drawing", rtt)
                    IN  /\ prepared # 0 /\ kept # 0 /\ prepared < kept
                        /\ m_bound_render_targets'[0] = << a.surface_addresses[0], rtt >>
                        /\ (a.address_z = 0 \/ DepthBindMatches(a))
                              => invalidated_resources' = invalidated_resources
              /\ DepthBindMatches(a) =>
                    LET ds == m_depth_stencil_storage[a.address_z]
                        kept == KeptCall(last'.log, ds, a.zeta_pitch)
                        prepared == FirstCall(last'.log, "prepare_ds_for_drawing", ds)
                    IN  /\ prepared # 0 /\ kept # 0 /\ prepared < kept
                        /\ m_bound_depth_stencil' = << a.address_z, ds >>]_vars

\* C23 as the code has it: when a bind finds an own-type storage at the
\* address whose format, width and height match, notify_surface_persist
\* (pitch-compatible case) or the in-place invalidate_surface_contents
\* (pitch-incompatible case) is issued on it before prepare_for_drawing, and
\* the existing handle is returned without touching invalidated_resources.
C23_MatchingBindPreparesLast ==
    [][\A a \in PitchInputs.prepare :
          (PrepareRenderTarget(PitchInputs.history, a) /\ last'.op = "prepare_render_target") =>
              /\ ColorBindMatches(a) =>
                    LET rtt == m_render_targets_storage[a.surface_addresses[0]]
                        kept == KeptCall(last'.log, rtt, a.surface_pitch[0])
                        prepared == FirstCall(last'.log, "prepare_rtt_for_drawing", rtt)
                    IN  /\ prepared # 0 /\ kept # 0 /\ kept < prepared
                        /\ m_bound_render_targets'[0] = << a.surface_addresses[0], rtt >>
                        /\ (a.address_z = 0 \/ DepthBindMatches(a))
                              => invalidated_resources' = invalidated_resources
              /\ DepthBindMatches(a) =>
                    LET ds == m_depth_stencil_storage[a.address_z]
                        kept == KeptCall(last'.log, ds, a.zeta_pitch)
                        prepared == FirstCall(last'.log, "prepare_ds_for_drawing", ds)
                    IN  /\ prepared # 0 /\ kept # 0 /\ kept < prepared
                        /\ m_bound_depth_stencil' = << a.address_z, ds >>]_vars

\* the second of two binds kept both surfaces of the first with another
\* pitch: it created none, moved none to invalidated_resources and
\* invalidated the contents of the color surface in place
C23_KeptWithAnotherPitch ==
    /\ last.op = "prepare_render_target"
    /\ last.after = "prepare_render_target"
    /\ g_rsx_shared_tag = 2
    /\ Len(surfaces) = 2
    /\ Creations(last.log) = {}
    /\ invalidated_resources = << >>
    /\ m_bound_render_targets[0][2] # nullptr
    /\ FirstCall(last.log, "invalidate_surface_contents", m_bound_render_targets[0][2]) # 0
    /\ surfaces[m_bound_render_targets[0][2]].rsx_pitch = 64

\* the second of two binds kept both surfaces of the first with the same
\* pitch
C23_KeptWithSamePitch ==
    /\ last.op = "prepare_render_target"
    /\ last.after = "prepare_render_target"
    /\ g_rsx_shared_tag = 2
    /\ Len(surfaces) = 2
    /\ m_bound_depth_stencil[2] # nullptr
    /\ FirstCall(last.log, "notify_surface_persist", m_bound_render_targets[0][2]) # 0
    /\ FirstCall(last.log, "notify_surface_persist", m_bound_depth_stencil[2]) # 0

(***************************************************************************)
(* Properties of the pool search of a bind                                 *)
(***************************************************************************)
\* what C28 says of one bind r of the request (format, width, height) at the
\* address, given the store s1 the bind searches (the store after the
\* storage of the other type at the address was evicted), its own map and
\* the positions hits of the pool elements the request accepts
BindCreatesOrReuses(s1, own, own_after, matched, hits, r, address) ==
    LET old_surface == IF address \in DOMAIN own /\ ~matched
                       THEN Traits_get(own[address]) ELSE nullptr
        first == CHOOSE i \in hits : \A j \in hits : i <= j
    IN  /\ (Creations(r.s.log) # {}) <=> (~matched /\ hits = {})
        /\ (~matched /\ hits # {}) =>
              /\ r.ret = Traits_get(s1.pool[first])
              /\ own_after[address] = s1.pool[first]
              /\ old_surface # nullptr =>
                    /\ Len(r.s.pool) = Len(s1.pool)
                    /\ r.s.pool = [s1.pool EXCEPT ![first] = old_surface]
              /\ old_surface = nullptr =>
                    /\ Len(r.s.pool) = Len(s1.pool) - 1
                    /\ r.s.pool = SeqRemove(s1.pool, first)

\* C28: a bind calls create_new_surface only when the own-type map has no
\* matching storage at the address and no element of invalidated_resources
\* satisfies the lenient format/width/height predicate; otherwise the first
\* matching pool element in queue order is installed at the address, and the
\* length of the pool the search finds is unchanged when a mismatching old
\* surface is swapped into the vacated slot and shrinks by exactly one when
\* there is no old surface.
C28_BindCreatesOnlyWithoutMatch ==
    \A a \in ReuseInputs.prepare :
        /\ \A i \in {k \in 0..(NumColorSlots - 1) : a.surface_addresses[k] # 0} :
              LET address == a.surface_addresses[i]
                  s1 == evict_aliased_depth_surface(Store, address)
              IN  BindCreatesOrReuses(
                      s1, s1.rtts,
                      bind_address_as_render_targets(Store, address, a.color_format,
                          a.antialias, a.clip_width, a.clip_height, a.surface_pitch[i]).s.rtts,
                      address \in DOMAIN s1.rtts
                          /\ rtt_has_format_width_height(s1.surf[s1.rtts[address]],
                                 a.color_format, a.clip_width, a.clip_height, FALSE),
                      {k \in DOMAIN s1.pool :
                          rtt_has_format_width_height(s1.surf[s1.pool[k]], a.color_format,
                              a.clip_width, a.clip_height, TRUE)},
                      bind_address_as_render_targets(Store, address, a.color_format,
                          a.antialias, a.clip_width, a.clip_height, a.surface_pitch[i]),
                      address)
        /\ a.address_z # 0 =>
              LET address == a.address_z
                  s1 == evict_aliased_rtt_surface(Store, address)
              IN  BindCreatesOrReuses(
                      s1, s1.dss,
                      bind_address_as_depth_stencil(Store, address, a.depth_format,
                          a.antialias, a.clip_width, a.clip_height, a.zeta_pitch).s.dss,
                      address \in DOMAIN s1.dss
                          /\ ds_has_format_width_height(s1.surf[s1.dss[address]],
                                 a.depth_format, a.clip_width, a.clip_height, FALSE),
                      {k \in DOMAIN s1.pool :
                          ds_has_format_width_height(s1.surf[s1.pool[k]], a.depth_format,
                              a.clip_width, a.clip_height, TRUE)},
                      bind_address_as_depth_stencil(Store, address, a.depth_format,
                          a.antialias, a.clip_width, a.clip_height, a.zeta_pitch),
                      address)

\* a color bind swapped the mismatching surface of its address into the
\* slot of the pool element it reused: the call created no surface, the
\* surface now bound had its contents invalidated with another surface as
\* source, and that surface is in invalidated_resources
C28_OldSurfaceSwappedIntoPool ==
    /\ last.op = "prepare_render_target"
    /\ Creations(last.log) = {}
    /\ m_bound_render_targets[0][2] # nullptr
    /\ \E k \in DOMAIN last.log :
          /\ last.log[k][1] = "invalidate_surface_contents"
          /\ last.log[k][2] = m_bound_render_targets[0][2]
          /\ last.log[k][3] # nullptr
          /\ last.log[k][3] \in Range(invalidated_resources)
          /\ FirstCall(last.log, "notify_surface_invalidated", last.log[k][3]) # 0
          /\ surfaces[last.log[k][3]].surface_width
                # surfaces[m_bound_render_targets[0][2]].surface_width

\* a color bind reused the first of two pool elements its request accepts
C28_FirstOfTwoReused ==
    /\ last.op = "prepare_render_target"
    /\ Creations(last.log) = {}
    /\ m_bound_render_targets[0][2] # nullptr
    /\ FirstCall(last.log, "invalidate_surface_contents", m_bound_render_targets[0][2]) # 0
    /\ \E k \in DOMAIN invalidated_resources :
          /\ ~is_depth_surface(surfaces[invalidated_resources[k]])
          /\ surfaces[invalidated_resources[k]].surface_width
                = surfaces[m_bound_render_targets[0][2]].surface_width
          /\ FirstCall(last.log, "notify_surface_invalidated", invalidated_resources[k]) = 0

(***************************************************************************)
(* Properties of the memory tree on_write uses                             *)
(***************************************************************************)
\* C24: whenever on_write finds memory_tag # cache_tag, the memory_tree it
\* then uses is exactly the tree built from the current maps and bound slots:
\* at most one block per bound slot, no record left over from an earlier
\* build, and every record refers to a surface currently held in the color
\* or depth map.
C24_OnWriteUsesFreshTree ==
    [][\A address \in TreeInputs.write :
          ( /\ OnWrite(TreeInputs.history, address)
            /\ last'.op = "on_write"
            /\ ~(address = 0 /\ write_tag = cache_tag)
            /\ memory_tag # cache_tag ) =>
              /\ m_memory_tree' = generate_render_target_memory_tree(
                                      << >>, Store, m_bound_render_targets,
                                      m_bound_depth_stencil)
              /\ Len(m_memory_tree') <= Cardinality(BoundSlots)
              /\ \A i \in DOMAIN m_memory_tree' :
                    \A j \in DOMAIN m_memory_tree'[i].overlapping_set :
                        \E pair \in StoredSurfaces :
                            /\ pair[1] = m_memory_tree'[i].overlapping_set[j].memory_address
                            /\ pair[2] = m_memory_tree'[i].overlapping_set[j]._ref]_vars

\* on_write() has rebuilt a tree that was not empty: the tree holds a block
\* and the call before the draw was not prepare_render_target
C24_TreeRebuiltOverOldTree ==
    /\ last.op = "on_write"
    /\ last.after # "prepare_render_target"
    /\ memory_tag = cache_tag
    /\ Len(m_memory_tree) > 1

(***************************************************************************)
(* Properties of the range tracker                                         *)
(***************************************************************************)
\* the guest addresses [A, A + rsx_pitch * height * aa_factor) of the
\* surface stored at A
Footprint(address, surface) ==
    start_length(address,
                 get_rsx_pitch(surfaces[surface]) * get_surface_height(surfaces[surface])
                     * get_aa_factor_v(surfaces[surface].read_aa_mode))

RangeContains(range, inner) ==
    range_valid(range) /\ range.start <= inner.start /\ inner.end <= range.end

\* C25: in every reachable state color_range contains the footprint
\* [A, A + rsx_pitch * height * aa_factor) of every surface in the color map
\* and depth_range that of every surface in the depth map, including
\* surfaces rebound in place with a new pitch and surfaces reused from the
\* pool.
C25_RangesCoverFootprints ==
    /\ \A A \in DOMAIN m_render_targets_storage :
          RangeContains(m_render_targets_memory_range,
                        Footprint(A, Traits_get(m_render_targets_storage[A])))
    /\ \A A \in DOMAIN m_depth_stencil_storage :
          RangeContains(m_depth_stencil_memory_range,
                        Footprint(A, Traits_get(m_depth_stencil_storage[A])))

\* a surface taken from invalidated_resources is stored and its footprint is
\* inside the range of its map
C25_ReusedSurfaceCovered ==
    /\ last.op = "prepare_render_target"
    /\ Creations(last.log) = {}
    /\ m_bound_render_targets[0][2] # nullptr
    /\ FirstCall(last.log, "invalidate_surface_contents", m_bound_render_targets[0][2]) # 0
    /\ FirstCall(last.log, "notify_surface_invalidated", m_bound_render_targets[0][2]) = 0
    /\ surfaces[m_bound_render_targets[0][2]].rsx_pitch = 32
    /\ C25_RangesCoverFootprints

(***************************************************************************)
(* Properties of the old_contents references                               *)
(***************************************************************************)
\* the surface reached from x by following old_contents n times, nullptr
\* when the chain ends earlier
RECURSIVE FollowOldContents(_, _)
FollowOldContents(x, n) ==
    IF x = nullptr \/ n = 0 THEN x
    ELSE FollowOldContents(surfaces[x].old_contents, n - 1)

\* C27: after any sequence of set_old_contents and on_write calls on a set
\* of surfaces the old_contents references contain no cycle: no surface is
\* reached from itself by following old_contents.
C27_NoOldContentsCycle ==
    \A x \in DOMAIN surfaces :
        \A n \in 1..Len(surfaces) : FollowOldContents(x, n) # x

\* set_old_contents installed a surface that has no old_contents of its own
C27_OldContentsInstalled ==
    /\ last.op = "set_old_contents"
    /\ last.args[2] # nullptr
    /\ surfaces[last.args[1]].old_contents = last.args[2]
    /\ surfaces[last.args[2]].old_contents = nullptr

\* set_old_contents refused a surface of another pitch
C27_OtherPitchRefused ==
    /\ last.op = "set_old_contents"
    /\ last.args[2] # nullptr
    /\ surfaces[last.args[1]].old_contents = nullptr

====
